---------------------------- MODULE Spec2Model ----------------------------
(***************************************************************************)
(* A model of the shogi move-search engine of src/src/ai-core.ts: the      *)
(* position model, the move generator, the move codec, the evaluator, the  *)
(* Zobrist key, and the iterative-deepening driver `think` with its        *)
(* recursive `search`, run as a state machine over an explicit call stack. *)
(*                                                                         *)
(* Scores.  evaluateBoard works in halves (rank bonus r*1.5, shield*1.5,   *)
(* hand value *0.9 of multiples of ten), all exactly representable in the  *)
(* doubles the program uses.  The model keeps every score as an integer    *)
(* number of halves: SC(x) is the program's score x.                       *)
(***************************************************************************)
EXTENDS Integers, Sequences, FiniteSets, TLC

\* ------------------------------------------------------------------------
\* Types and tables (ai-core.ts 4-38)
\* ------------------------------------------------------------------------

BOARD_SIZE == 9

Sides == {"black", "white"}
BaseKinds == {"K", "R", "B", "G", "S", "N", "L", "P"}
PromotedKinds == {"PR", "PB", "PS", "PN", "PL", "PP"}
HandKinds == <<"R", "B", "G", "S", "N", "L", "P">>

\* board[r][c].piece is null or a Piece; NoPiece stands for null.
NoPiece == [side |-> "none", type |-> "none"]

Pc(s, t) == [side |-> s, type |-> t]

Rows == 0 .. (BOARD_SIZE - 1)

EmptyBoard == [r \in Rows |-> [c \in Rows |-> NoPiece]]

opp(side) == IF side = "black" THEN "white" ELSE "black"

promotableBase(t) == t \in {"R", "B", "S", "N", "L", "P"}

promoteMap(t) ==
  CASE t = "R" -> "PR" [] t = "B" -> "PB" [] t = "S" -> "PS"
    [] t = "N" -> "PN" [] t = "L" -> "PL" [] t = "P" -> "PP"
    [] OTHER -> "null"

demoteMap(t) ==
  CASE t = "PR" -> "R" [] t = "PB" -> "B" [] t = "PS" -> "S"
    [] t = "PN" -> "N" [] t = "PL" -> "L" [] t = "PP" -> "P"
    [] OTHER -> t

isPromoted(t) == t \in PromotedKinds

isPromotableType(t) == ~isPromoted(t) /\ promotableBase(t)

toPromoted(t) == IF promoteMap(t) = "null" THEN t ELSE promoteMap(t)

toDemotedBase(t) == demoteMap(t)

inBounds(r, c) == r >= 0 /\ r < BOARD_SIZE /\ c >= 0 /\ c < BOARD_SIZE

\* cloneBoard builds a fresh array of fresh cells holding the same pieces;
\* as a value it is the board it copies.
cloneBoard(src) == [r \in Rows |-> [c \in Rows |-> src[r][c]]]

\* ------------------------------------------------------------------------
\* Sequence helpers
\* ------------------------------------------------------------------------

\* The concatenation of the sequences of ss, in order (by halves, to keep the
\* evaluation shallow).
RECURSIVE ConcatAll(_)
ConcatAll(ss) ==
  IF Len(ss) = 0 THEN <<>>
  ELSE IF Len(ss) = 1 THEN ss[1]
  ELSE LET h == Len(ss) \div 2
       IN ConcatAll(SubSeq(ss, 1, h)) \o ConcatAll(SubSeq(ss, h + 1, Len(ss)))

\* The squares in the order of the nested loops "for r ... for c ...".
AllSquares == [i \in 1 .. (BOARD_SIZE * BOARD_SIZE) |->
                 <<(i - 1) \div BOARD_SIZE, (i - 1) % BOARD_SIZE>>]

SeqToSet(s) == {s[i] : i \in 1 .. Len(s)}

\* ------------------------------------------------------------------------
\* Piece movement (ai-core.ts 43-110)
\* ------------------------------------------------------------------------

findKing(board, side) ==
  LET ks == SelectSeq(AllSquares,
                LAMBDA sq : board[sq[1]][sq[2]] # NoPiece
                            /\ board[sq[1]][sq[2]].side = side
                            /\ demoteMap(board[sq[1]][sq[2]].type) = "K")
  IN IF ks = <<>> THEN <<>> ELSE ks[1]

hasPawnInFile(board, side, col) ==
  \E r \in Rows : /\ board[r][col] # NoPiece
                  /\ board[r][col].side = side
                  /\ demoteMap(board[r][col].type) = "P"

\* A variant of rayFrom that stops after one square.
rayFromOneStep(board, nr, nc, dr, dc, side) ==
  IF ~inBounds(nr, nc) THEN <<>>
  ELSE IF board[nr][nc] = NoPiece \/ board[nr][nc].side # side
    THEN << <<nr, nc>> >>
    ELSE <<>>

RECURSIVE rayFrom(_, _, _, _, _, _)
rayFrom(board, nr, nc, dr, dc, side) ==
  IF ~inBounds(nr, nc) THEN <<>>
  ELSE LET occ == board[nr][nc]
       IN IF occ = NoPiece
            THEN << <<nr, nc>> >> \o rayFrom(board, nr + dr, nc + dc, dr, dc, side)
            ELSE IF occ.side # side THEN << <<nr, nc>> >> ELSE <<>>

rayMoves(board, r, c, deltas, side) ==
  ConcatAll([i \in 1 .. Len(deltas) |->
               rayFrom(board, r + deltas[i][1], c + deltas[i][2],
                       deltas[i][1], deltas[i][2], side)])

stepMoves(board, r, c, deltas, side) ==
  SelectSeq([i \in 1 .. Len(deltas) |-> <<r + deltas[i][1], c + deltas[i][2]>>],
            LAMBDA sq : inBounds(sq[1], sq[2])
                        /\ (board[sq[1]][sq[2]] = NoPiece
                            \/ board[sq[1]][sq[2]].side # side))

goldLike(board, r, c, side) ==
  stepMoves(board, r, c,
            IF side = "black"
              THEN << <<-1, 0>>, <<0, -1>>, <<0, 1>>, <<1, -1>>, <<1, 0>>, <<1, 1>> >>
              ELSE << <<1, 0>>, <<0, -1>>, <<0, 1>>, <<-1, -1>>, <<-1, 0>>, <<-1, 1>> >>,
            side)

Orth == << <<1, 0>>, <<-1, 0>>, <<0, 1>>, <<0, -1>> >>
Diag == << <<1, 1>>, <<1, -1>>, <<-1, 1>>, <<-1, -1>> >>

legalMoves(board, r, c) ==
  LET p == board[r][c]
      side == p.side
      dir == IF side = "black" THEN 1 ELSE -1
      t == p.type
  IN IF p = NoPiece THEN <<>>
     ELSE CASE t = "PR" -> rayMoves(board, r, c, Orth, side)
                           \o stepMoves(board, r, c, Diag, side)
            [] t = "PB" -> rayMoves(board, r, c, Diag, side)
                           \o stepMoves(board, r, c, Orth, side)
            [] t \in {"PS", "PN", "PL", "PP"} -> goldLike(board, r, c, side)
            [] t = "K" -> stepMoves(board, r, c,
                            << <<-1, -1>>, <<-1, 0>>, <<-1, 1>>, <<0, -1>>,
                               <<0, 1>>, <<1, -1>>, <<1, 0>>, <<1, 1>> >>, side)
            [] t = "G" -> goldLike(board, r, c, side)
            [] t = "S" -> stepMoves(board, r, c,
                            IF dir = 1
                              THEN << <<1, -1>>, <<1, 0>>, <<1, 1>>, <<-1, -1>>, <<-1, 1>> >>
                              ELSE << <<-1, -1>>, <<-1, 0>>, <<-1, 1>>, <<1, -1>>, <<1, 1>> >>,
                            side)
            [] t = "N" -> stepMoves(board, r, c,
                            IF dir = 1 THEN << <<2, -1>>, <<2, 1>> >>
                                       ELSE << <<-2, -1>>, <<-2, 1>> >>, side)
            [] t = "L" -> rayMoves(board, r, c, << <<dir, 0>> >>, side)
            [] t = "P" -> stepMoves(board, r, c, << <<dir, 0>> >>, side)
            [] t = "B" -> rayMoves(board, r, c, Diag, side)
            [] t = "R" -> rayMoves(board, r, c, Orth, side)
            [] OTHER -> <<>>

inEnemyZone(side, r) == IF side = "black" THEN r >= 6 ELSE r <= 2

involvesEnemyZone(side, fromR, toR) ==
  inEnemyZone(side, fromR) \/ inEnemyZone(side, toR)

\* A variant of isForcedPromotion that forces a knight on the farthest rank only.
isForcedPromotionLastRank(side, pieceType, toR) ==
  LET t == IF isPromoted(pieceType) THEN demoteMap(pieceType) ELSE pieceType
  IN IF t = "P" \/ t = "L" \/ t = "N"
       THEN (side = "black" /\ toR = 8) \/ (side = "white" /\ toR = 0)
       ELSE FALSE

isForcedPromotion(side, pieceType, toR) ==
  LET t == IF isPromoted(pieceType) THEN demoteMap(pieceType) ELSE pieceType
  IN IF t = "P" \/ t = "L"
       THEN (side = "black" /\ toR = 8) \/ (side = "white" /\ toR = 0)
       ELSE IF t = "N"
         THEN (side = "black" /\ toR >= 7) \/ (side = "white" /\ toR <= 1)
         ELSE FALSE

\* ------------------------------------------------------------------------
\* Static exchange estimate (ai-core.ts 113-120)
\* ------------------------------------------------------------------------

pieceValue(t) ==
  CASE t = "P" -> 100 [] t = "L" -> 330 [] t = "N" -> 320 [] t = "S" -> 450
    [] t = "G" -> 500 [] t = "B" -> 850 [] t = "R" -> 1000 [] t = "K" -> 10000

\* Math.floor(a * 0.7) in IEEE doubles, for the piece values: the product
\* is exact except 330 * 0.7 = 230.99999999999997, whose floor is 230.
floor07(a) == IF a = 330 THEN 230 ELSE (a * 7) \div 10

seeGain(bd, from, to) ==
  LET victim == bd[to.r][to.c]
      attacker == bd[from.r][from.c]
  IN IF victim = NoPiece THEN 0
     ELSE pieceValue(demoteMap(victim.type))
          - floor07(pieceValue(demoteMap(attacker.type)))

\* ------------------------------------------------------------------------
\* Moves and hands (ai-core.ts 12, 123-125)
\* ------------------------------------------------------------------------

\* A GenMove.  Both variants are kept in one record shape; the fields of the
\* other variant hold NoSq / NoPiece / "none" / FALSE and are never read.
NoSq == [r |-> -1, c |-> -1]

Sq(r, c) == [r |-> r, c |-> c]

MoveRec(fr, fc, tr, tc, took, promote) ==
  [kind |-> "move", from |-> Sq(fr, fc), to |-> Sq(tr, tc), took |-> took,
   promote |-> promote, piece |-> "none", at |-> NoSq]

DropRec(t, r, c) ==
  [kind |-> "drop", from |-> NoSq, to |-> NoSq, took |-> NoPiece,
   promote |-> FALSE, piece |-> t, at |-> Sq(r, c)]

\* hand[t] ?? 0: a Hand may lack an entry.
handGet(h, t) == IF t \in DOMAIN h THEN h[t] ELSE 0

handSet(h, t, n) == [k \in (DOMAIN h) \cup {t} |-> IF k = t THEN n ELSE h[k]]

Max(a, b) == IF a >= b THEN a ELSE b
Min(a, b) == IF a <= b THEN a ELSE b

\* ------------------------------------------------------------------------
\* applyOneMove (ai-core.ts 127-150)
\* ------------------------------------------------------------------------

\* A variant of applyOneMove that never signals a winner.
applyOneMoveNoWinner(bd, hB, hW, side, m) ==
  LET nextB == cloneBoard(bd)
  IN IF m.kind = "drop"
       THEN LET placed == [nextB EXCEPT ![m.at.r][m.at.c] = Pc(side, m.piece)]
                cnt(h) == Max(0, handGet(h, m.piece) - 1)
            IN [bd |-> placed,
                hB |-> IF side = "black" THEN handSet(hB, m.piece, cnt(hB)) ELSE hB,
                hW |-> IF side = "black" THEN hW ELSE handSet(hW, m.piece, cnt(hW)),
                winner |-> "null"]
       ELSE LET mover == nextB[m.from.r][m.from.c]
                base == demoteMap(m.took.type)
                capO == m.took # NoPiece /\ base # "K"
                afterType == IF m.promote /\ isPromotableType(mover.type)
                               THEN toPromoted(mover.type) ELSE mover.type
                moved == [nextB EXCEPT ![m.to.r][m.to.c] = Pc(side, afterType),
                                       ![m.from.r][m.from.c] = NoPiece]
            IN [bd |-> moved,
                hB |-> IF capO /\ side = "black"
                         THEN handSet(hB, base, handGet(hB, base) + 1) ELSE hB,
                hW |-> IF capO /\ side # "black"
                         THEN handSet(hW, base, handGet(hW, base) + 1) ELSE hW,
                winner |-> "null"]

\* A variant of applyOneMove that takes a dropped piece off the hand count
\* as it is, present or not.
applyOneMoveNoClamp(bd, hB, hW, side, m) ==
  LET nextB == cloneBoard(bd)
  IN IF m.kind = "drop"
       THEN LET placed == [nextB EXCEPT ![m.at.r][m.at.c] = Pc(side, m.piece)]
                cnt(h) == handGet(h, m.piece) - 1
            IN [bd |-> placed,
                hB |-> IF side = "black" THEN handSet(hB, m.piece, cnt(hB)) ELSE hB,
                hW |-> IF side = "black" THEN hW ELSE handSet(hW, m.piece, cnt(hW)),
                winner |-> "null"]
       ELSE LET mover == nextB[m.from.r][m.from.c]
                base == demoteMap(m.took.type)
                capK == m.took # NoPiece /\ base = "K"
                capO == m.took # NoPiece /\ base # "K"
                afterType == IF m.promote /\ isPromotableType(mover.type)
                               THEN toPromoted(mover.type) ELSE mover.type
                moved == [nextB EXCEPT ![m.to.r][m.to.c] = Pc(side, afterType),
                                       ![m.from.r][m.from.c] = NoPiece]
            IN [bd |-> moved,
                hB |-> IF capO /\ side = "black"
                         THEN handSet(hB, base, handGet(hB, base) + 1) ELSE hB,
                hW |-> IF capO /\ side # "black"
                         THEN handSet(hW, base, handGet(hW, base) + 1) ELSE hW,
                winner |-> IF capK THEN side ELSE "null"]

\* A variant of applyOneMove that puts a captured piece in hand as it stood,
\* promoted or not.
applyOneMoveNoDemote(bd, hB, hW, side, m) ==
  LET nextB == cloneBoard(bd)
  IN IF m.kind = "drop"
       THEN LET placed == [nextB EXCEPT ![m.at.r][m.at.c] = Pc(side, m.piece)]
                cnt(h) == Max(0, handGet(h, m.piece) - 1)
            IN [bd |-> placed,
                hB |-> IF side = "black" THEN handSet(hB, m.piece, cnt(hB)) ELSE hB,
                hW |-> IF side = "black" THEN hW ELSE handSet(hW, m.piece, cnt(hW)),
                winner |-> "null"]
       ELSE LET mover == nextB[m.from.r][m.from.c]
                base == m.took.type
                capK == m.took # NoPiece /\ demoteMap(base) = "K"
                capO == m.took # NoPiece /\ demoteMap(base) # "K"
                afterType == IF m.promote /\ isPromotableType(mover.type)
                               THEN toPromoted(mover.type) ELSE mover.type
                moved == [nextB EXCEPT ![m.to.r][m.to.c] = Pc(side, afterType),
                                       ![m.from.r][m.from.c] = NoPiece]
            IN [bd |-> moved,
                hB |-> IF capO /\ side = "black"
                         THEN handSet(hB, base, handGet(hB, base) + 1) ELSE hB,
                hW |-> IF capO /\ side # "black"
                         THEN handSet(hW, base, handGet(hW, base) + 1) ELSE hW,
                winner |-> IF capK THEN side ELSE "null"]

applyOneMove(bd, hB, hW, side, m) ==
  LET nextB == cloneBoard(bd)
  IN IF m.kind = "drop"
       THEN LET placed == [nextB EXCEPT ![m.at.r][m.at.c] = Pc(side, m.piece)]
                cnt(h) == Max(0, handGet(h, m.piece) - 1)
            IN [bd |-> placed,
                hB |-> IF side = "black" THEN handSet(hB, m.piece, cnt(hB)) ELSE hB,
                hW |-> IF side = "black" THEN hW ELSE handSet(hW, m.piece, cnt(hW)),
                winner |-> "null"]
       ELSE LET mover == nextB[m.from.r][m.from.c]
                base == demoteMap(m.took.type)
                capK == m.took # NoPiece /\ base = "K"
                capO == m.took # NoPiece /\ base # "K"
                afterType == IF m.promote /\ isPromotableType(mover.type)
                               THEN toPromoted(mover.type) ELSE mover.type
                moved == [nextB EXCEPT ![m.to.r][m.to.c] = Pc(side, afterType),
                                       ![m.from.r][m.from.c] = NoPiece]
            IN [bd |-> moved,
                hB |-> IF capO /\ side = "black"
                         THEN handSet(hB, base, handGet(hB, base) + 1) ELSE hB,
                hW |-> IF capO /\ side # "black"
                         THEN handSet(hW, base, handGet(hW, base) + 1) ELSE hW,
                winner |-> IF capK THEN side ELSE "null"]

\* ------------------------------------------------------------------------
\* enumerateMovesGeneric (ai-core.ts 152-190)
\* ------------------------------------------------------------------------

\* The moves pushed for one destination of the piece on (r, c): lines 159-169.
movesTo(curBoard, side, r, c, tr, tc) ==
  LET p == curBoard[r][c]
      dest == curBoard[tr][tc]
      must == isPromotableType(p.type) /\ isForcedPromotion(side, p.type, tr)
      canBasic == isPromotableType(p.type) /\ involvesEnemyZone(side, r, tr)
  IN IF must THEN << MoveRec(r, c, tr, tc, dest, TRUE) >>
     ELSE IF canBasic
       THEN << MoveRec(r, c, tr, tc, dest, TRUE), MoveRec(r, c, tr, tc, dest, FALSE) >>
       ELSE << MoveRec(r, c, tr, tc, dest, FALSE) >>

\* Lines 154-171: the board moves, in the order of the square loops.
boardMoves(curBoard, side) ==
  ConcatAll([i \in 1 .. Len(AllSquares) |->
    LET r == AllSquares[i][1]
        c == AllSquares[i][2]
        p == curBoard[r][c]
    IN IF p = NoPiece \/ p.side # side THEN <<>>
       ELSE LET mv == legalMoves(curBoard, r, c)
            IN ConcatAll([j \in 1 .. Len(mv) |->
                            movesTo(curBoard, side, r, c, mv[j][1], mv[j][2])])])

\* A variant of canDrop without the test of the file for a pawn.
canDropAnyFile(curBoard, side, t, rr, cc) ==
  IF curBoard[rr][cc] # NoPiece THEN FALSE
  ELSE IF t = "P" /\ ((side = "black" /\ rr = 8) \/ (side = "white" /\ rr = 0)) THEN FALSE
  ELSE IF t = "L" /\ ((side = "black" /\ rr = 8) \/ (side = "white" /\ rr = 0)) THEN FALSE
  ELSE IF t = "N" /\ ((side = "black" /\ rr >= 7) \/ (side = "white" /\ rr <= 1)) THEN FALSE
  ELSE TRUE

canDrop(curBoard, side, t, rr, cc) ==
  IF curBoard[rr][cc] # NoPiece THEN FALSE
  ELSE IF t = "P" /\ ((side = "black" /\ rr = 8) \/ (side = "white" /\ rr = 0)) THEN FALSE
  ELSE IF t = "P" /\ hasPawnInFile(curBoard, side, cc) THEN FALSE
  ELSE IF t = "L" /\ ((side = "black" /\ rr = 8) \/ (side = "white" /\ rr = 0)) THEN FALSE
  ELSE IF t = "N" /\ ((side = "black" /\ rr >= 7) \/ (side = "white" /\ rr <= 1)) THEN FALSE
  ELSE TRUE

\* Lines 183-188: the drops, kind by kind.
dropMoves(curBoard, hand, side) ==
  ConcatAll([k \in 1 .. Len(HandKinds) |->
    LET t == HandKinds[k]
        n == handGet(hand, t)
    IN IF n <= 0 THEN <<>>
       ELSE LET ok == SelectSeq(AllSquares,
                        LAMBDA sq : canDrop(curBoard, side, t, sq[1], sq[2]))
            IN [j \in 1 .. Len(ok) |-> DropRec(t, ok[j][1], ok[j][2])]])

enumerateMovesGeneric(curBoard, handB, handW, side) ==
  boardMoves(curBoard, side)
  \o dropMoves(curBoard, IF side = "black" THEN handB ELSE handW, side)

\* ------------------------------------------------------------------------
\* Move codec (ai-core.ts 272-290)
\* ------------------------------------------------------------------------

\* A PackedMove "m:fr,fc,tr,tc,p" or "d:pc,atR,atC" is kept as the tuple of
\* its tag and its comma-separated fields; null is the empty tuple.
NullMove == <<>>

pack(m) ==
  IF m.kind = "drop"
    THEN <<"d", m.piece, m.at.r, m.at.c>>
    ELSE <<"m", m.from.r, m.from.c, m.to.r, m.to.c, IF m.promote THEN 1 ELSE 0>>

\* A variant of unpack that leaves the captured piece out.
unpackNoTook(s, bd) ==
  IF s[1] = "d"
    THEN [kind |-> "drop", side |-> "white", piece |-> s[2], at |-> Sq(s[3], s[4])]
    ELSE [kind |-> "move", side |-> "white", from |-> Sq(s[2], s[3]),
          to |-> Sq(s[4], s[5]), took |-> NoPiece, promote |-> (s[6] # 0)]

\* unpack always stamps side "white"; the side is no field of a GenMove.
unpack(s, bd) ==
  IF s[1] = "d"
    THEN [kind |-> "drop", side |-> "white", piece |-> s[2], at |-> Sq(s[3], s[4])]
    ELSE [kind |-> "move", side |-> "white", from |-> Sq(s[2], s[3]),
          to |-> Sq(s[4], s[5]), took |-> bd[s[4]][s[5]], promote |-> (s[6] # 0)]

\* ------------------------------------------------------------------------
\* Evaluator (ai-core.ts 193-225), in halves
\* ------------------------------------------------------------------------

SC(x) == 2 * x

\* f[lo] + ... + f[hi], by halves.
RECURSIVE sumRange(_, _, _)
sumRange(f, lo, hi) ==
  IF lo > hi THEN 0
  ELSE IF lo = hi THEN f[lo]
  ELSE LET mid == (lo + hi) \div 2
       IN sumRange(f, lo, mid) + sumRange(f, mid + 1, hi)

\* The sum of f[r][c] over the squares.
sumSquares(f) ==
  sumRange([i \in 1 .. Len(AllSquares) |-> f[AllSquares[i][1]][AllSquares[i][2]]],
           1, Len(AllSquares))

\* mobility(bd2, s), lines 222-224.
mobility(bd2, s) ==
  LET one(r, c) == IF bd2[r][c] # NoPiece /\ bd2[r][c].side = s
                     THEN Len(legalMoves(bd2, r, c)) ELSE 0
  IN sumSquares([r \in Rows |-> [c \in Rows |-> one(r, c)]])

\* shieldW / shieldB, lines 202-208: 4 for every piece of the king's own side
\* on the 3x3 block around it, the king's own square included.
shield(bd, s) ==
  LET one(r, c) ==
        IF bd[r][c] # NoPiece /\ bd[r][c].side = s /\ demoteMap(bd[r][c].type) = "K"
          THEN 4 * Cardinality({d \in {-1, 0, 1} \X {-1, 0, 1} :
                                  /\ inBounds(r + d[1], c + d[2])
                                  /\ bd[r + d[1]][c + d[2]] # NoPiece
                                  /\ bd[r + d[1]][c + d[2]].side = s})
          ELSE 0
  IN sumSquares([r \in Rows |-> [c \in Rows |-> one(r, c)]])

\* Twice the v of lines 197-211, signed as "score += white ? v : -v".
material(bd) ==
  LET one(r, c) ==
        LET p == bd[r][c]
            v2 == SC(pieceValue(demoteMap(p.type)))
                  + (IF isPromoted(p.type) THEN SC(30) ELSE 0)
                  + (IF p.side = "white" THEN 8 - r ELSE r) * 3
        IN IF p = NoPiece THEN 0 ELSE IF p.side = "white" THEN v2 ELSE -v2
  IN sumSquares([r \in Rows |-> [c \in Rows |-> one(r, c)]])

\* Twice the hand term of lines 216-219: count * pieceValue * 0.9.
handValue(hB, hW) ==
  sumRange([k \in 1 .. Len(HandKinds) |->
              ((handGet(hW, HandKinds[k]) - handGet(hB, HandKinds[k]))
                 * pieceValue(HandKinds[k]) * 9) \div 5],
           1, Len(HandKinds))

\* A variant of evaluateBoard seen from black's side.
evaluateBoardForBlack(bd, hB, hW) ==
  -(material(bd)
    + (mobility(bd, "white") - mobility(bd, "black")) * 4
    + (shield(bd, "white") - shield(bd, "black")) * 3
    + handValue(hB, hW))

\* Twice the score of lines 193-220: positive when white is ahead.
evaluateBoard(bd, hB, hW) ==
  material(bd)
  + (mobility(bd, "white") - mobility(bd, "black")) * 4
  + (shield(bd, "white") - shield(bd, "black")) * 3
  + handValue(hB, hW)

\* ------------------------------------------------------------------------
\* Zobrist keys (ai-core.ts 228-241, 255-270)
\* ------------------------------------------------------------------------

\* A 32-bit word is the set of its one bits: ^ is the symmetric difference,
\* << and >>> move the bits and drop those that leave the word.
Bits == 0 .. 31

word(hi, lo) ==
  {i \in 0 .. 15 : (lo \div (2 ^ i)) % 2 = 1}
  \cup {i + 16 : i \in {j \in 0 .. 15 : (hi \div (2 ^ j)) % 2 = 1}}

xor(a, b) == (a \ b) \cup (b \ a)
shl(x, n) == {b + n : b \in {y \in x : y + n <= 31}}
shr(x, n) == {b - n : b \in {y \in x : y >= n}}

\* One call of the generator of line 235.
rnd(x) ==
  LET x1 == xor(x, shl(x, 13))
      x2 == xor(x1, shr(x1, 17))
  IN xor(x2, shl(x2, 5))

RECURSIVE rndRun(_, _)
rndRun(x, n) ==
  IF n = 0 THEN <<>> ELSE LET y == rnd(x) IN <<y>> \o rndRun(y, n - 1)

RECURSIVE rndBlocks(_, _, _)
rndBlocks(x, len, k) ==
  IF k = 0 THEN <<>>
  ELSE LET blk == rndRun(x, len) IN blk \o rndBlocks(blk[len], len, k - 1)

\* The values drawn by the constructor, in order: psq (9*9*28), hand (2*7*9),
\* turn, 2395 in all (the stream is computed in 48 runs of 50; the last five
\* values are never read); the seed is 0x9e3779b9.
zobStream == rndBlocks(word(40503, 31161), 50, 48)

zobPsq(r, c, pi) == zobStream[(r * 9 + c) * 28 + pi + 1]
zobHand(s, i, n) == zobStream[9 * 9 * 28 + (s * 7 + i) * 9 + n + 1]
zobTurn == zobStream[9 * 9 * 28 + 2 * 7 * 9 + 1]

pieceIndex(side, type) ==
  LET t == CASE type = "K" -> 0 [] type = "R" -> 1 [] type = "B" -> 2
             [] type = "G" -> 3 [] type = "S" -> 4 [] type = "N" -> 5
             [] type = "L" -> 6 [] type = "P" -> 7 [] type = "PR" -> 8
             [] type = "PB" -> 9 [] type = "PS" -> 10 [] type = "PN" -> 11
             [] type = "PL" -> 12 [] type = "PP" -> 13
  IN (IF side = "black" THEN 0 ELSE 1) * 14 + t

\* The xor of a set of words: the bits set in an odd number of them.
xorAll(ws) == {b \in Bits : Cardinality({w \in ws : b \in w}) % 2 = 1}

keyBoard(board, handB, handW, side) ==
  LET onBoard == {zobPsq(sq[1], sq[2], pieceIndex(board[sq[1]][sq[2]].side,
                                                  board[sq[1]][sq[2]].type)) :
                    sq \in {q \in Rows \X Rows : board[q[1]][q[2]] # NoPiece}}
      inHand(s, h) == {zobHand(s, i - 1, n) :
                         <<i, n>> \in {x \in (1 .. Len(HandKinds)) \X (0 .. 7) :
                                         x[2] < Min(8, handGet(h, HandKinds[x[1]]))}}
      turn == IF side = "white" THEN {zobTurn} ELSE {}
  IN xorAll(onBoard \cup inHand(0, handB) \cup inHand(1, handW) \cup turn)

\* ------------------------------------------------------------------------
\* Move ordering (ai-core.ts 292-313, 384-393)
\* ------------------------------------------------------------------------

\* `${side}-${f.r}${f.c}-${t.r}${t.c}`, kept as the tuple of its parts.
histKey(side, f, t) == <<side, f.r, f.c, t.r, t.c>>

\* history[k] ?? 0 and killers[depth] ?? [].
histGet(hist, k) == IF k \in DOMAIN hist THEN hist[k] ELSE 0
killersAt(killers, d) == IF d \in DOMAIN killers THEN killers[d] ELSE <<>>

addHistory(history, side, f, t, depth) ==
  LET k == histKey(side, f, t)
      cur == histGet(history, k)
  IN [x \in (DOMAIN history) \cup {k} |-> IF x = k THEN cur + depth * depth ELSE history[x]]

\* A variant of pushKiller that never drops a token.
pushKillerNoCap(killers, depth, pm) ==
  LET ks == killersAt(killers, depth)
      ks1 == IF \E i \in 1 .. Len(ks) : ks[i] = pm THEN ks ELSE <<pm>> \o ks
  IN [x \in (DOMAIN killers) \cup {depth} |-> IF x = depth THEN ks1 ELSE killers[x]]

\* Lines 389-393.
pushKiller(killers, depth, pm) ==
  LET ks == killersAt(killers, depth)
      ks1 == IF \E i \in 1 .. Len(ks) : ks[i] = pm THEN ks ELSE <<pm>> \o ks
      ks2 == IF Len(ks1) > 2 THEN SubSeq(ks1, 1, Len(ks1) - 1) ELSE ks1
  IN [x \in (DOMAIN killers) \cup {depth} |-> IF x = depth THEN ks2 ELSE killers[x]]

\* Array.prototype.sort with the comparator (a, b) => key(b) - key(a): a
\* stable sort by descending key.  keys[i] is the key of list[i].
sortDesc(list, keys) ==
  LET n == Len(list)
      rank(i) == Cardinality({j \in 1 .. n : keys[j] > keys[i]})
                 + Cardinality({j \in 1 .. (i - 1) : keys[j] = keys[i]}) + 1
  IN [k \in 1 .. n |-> list[CHOOSE i \in 1 .. n : rank(i) = k]]

\* The score orderMoves gives one move (lines 295-307).
orderScore(bd, side, m, ks, hist, pv, ttBest) ==
  LET pm == pack(m)
  IN (IF pv # NullMove /\ pm = pv THEN 1000000 ELSE 0)
     + (IF ttBest # NullMove /\ pm = ttBest THEN 500000 ELSE 0)
     + (IF m.kind = "move"
          THEN (IF m.took # NoPiece THEN pieceValue(demoteMap(m.took.type)) * 100 ELSE 0)
               + (IF m.promote THEN 200 ELSE 0)
               + (IF m.took # NoPiece THEN seeGain(bd, m.from, m.to) ELSE 0)
               + histGet(hist, histKey(side, m.from, m.to))
          ELSE 50)
     + (IF \E i \in 1 .. Len(ks) : ks[i] = pm THEN 10000 ELSE 0)

orderMoves(bd, side, list, depth, hist, killers, pv, ttBest) ==
  LET ks == killersAt(killers, depth)
  IN sortDesc(list, [i \in 1 .. Len(list) |->
                       orderScore(bd, side, list[i], ks, hist, pv, ttBest)])

\* ------------------------------------------------------------------------
\* Quiescence (ai-core.ts 315-337)
\* ------------------------------------------------------------------------

\* evaluateBoard(...) * (side === "white" ? 1 : -1)
standPat(bd, hB, hW, side) ==
  IF side = "white" THEN evaluateBoard(bd, hB, hW) ELSE -evaluateBoard(bd, hB, hW)

WIN == SC(999999)

\* A variant of quietMoves that keeps every move of a piece on the board.
quietMovesAnyBoardMove(bd, hB, hW, side) ==
  LET moves == SelectSeq(enumerateMovesGeneric(bd, hB, hW, side),
                 LAMBDA m : m.kind = "move")
  IN IF Len(moves) > 40
       THEN SubSeq(sortDesc(moves, [i \in 1 .. Len(moves) |->
                                      seeGain(bd, moves[i].from, moves[i].to)]), 1, 40)
       ELSE moves

\* A variant of quietMoves that cuts the list without sorting it.
quietMovesUnsorted(bd, hB, hW, side) ==
  LET moves == SelectSeq(enumerateMovesGeneric(bd, hB, hW, side),
                 LAMBDA m : m.kind = "move" /\ (m.took # NoPiece \/ m.promote))
  IN IF Len(moves) > 40 THEN SubSeq(moves, 1, 40) ELSE moves

\* Lines 320-328: captures and promotions, cut to the 40 best by seeGain.
quietMoves(bd, hB, hW, side) ==
  LET moves == SelectSeq(enumerateMovesGeneric(bd, hB, hW, side),
                 LAMBDA m : m.kind = "move" /\ (m.took # NoPiece \/ m.promote))
  IN IF Len(moves) > 40
       THEN SubSeq(sortDesc(moves, [i \in 1 .. Len(moves) |->
                                      seeGain(bd, moves[i].from, moves[i].to)]), 1, 40)
       ELSE moves

RECURSIVE quiescence(_, _, _, _, _, _)
RECURSIVE qLoop(_, _, _, _, _, _, _, _)

\* The loop of lines 330-335 from move i on, with the current alpha.
qLoop(bd, hB, hW, side, alpha, beta, moves, i) ==
  IF i > Len(moves) THEN alpha
  ELSE LET res == applyOneMove(bd, hB, hW, side, moves[i])
           score == IF res.winner # "null" THEN WIN
                    ELSE -quiescence(res.bd, res.hB, res.hW, opp(side), -beta, -alpha)
       IN IF score >= beta THEN beta
          ELSE qLoop(bd, hB, hW, side, Max(alpha, score), beta, moves, i + 1)

quiescence(bd, hB, hW, side, alpha, beta) ==
  LET stand == standPat(bd, hB, hW, side)
  IN IF stand >= beta THEN beta
     ELSE qLoop(bd, hB, hW, side, Max(alpha, stand), beta,
                quietMoves(bd, hB, hW, side), 1)

\* ------------------------------------------------------------------------
\* State
\* ------------------------------------------------------------------------

VARIABLES
  \* the generator, the codec and applyOneMove, driven move by move
  gpos,     \* the position: [bd, hB, hW, side]
  gphase,   \* "pos" | "gen" | "picked"
  gmoves,   \* enumerateMovesGeneric of gpos, once generated
  gsel,     \* the move picked from gmoves
  gtok,     \* pack(gsel)
  gdec,     \* unpack(gtok, gpos.bd)
  gprev,    \* the position the last applied move was applied to
  glast,    \* the last applied move
  gwin,     \* the winner signal of the last applyOneMove
  gply,     \* generation rounds so far
  \* one call of think
  inp,          \* the arguments: [board, handBlack, handWhite, side, timeMs]
  tpc,          \* "idle" | "start" | "loop" | "search" | "done"
  clock,        \* Date.now() - start
  timeLimit, maxDepth, depth, aspiration, windowAlpha, windowBeta,
  rootMoves, best, bestScore,
  result,       \* the value think returned, once tpc = "done"
  stack,        \* the frames of search, the running one last
  ret,          \* the value the last finished search call returned
  tt,           \* the TransTable: [map, tick]
  killers, history,
  nodes,        \* search calls entered before the deadline
  \* history variables, read by the properties only
  aborted,      \* a call of the running root search was cut by the time check
  accepted,     \* iterations accepted so far
  aborts,       \* accepted iterations that had a call cut by the time check
  cleanBest,    \* best as of the last accepted iteration with no call cut
  \* one function of the engine applied to drawn arguments
  ucall,        \* the call: [fn, ...arguments]
  uout,         \* what it returned, a record
  \* one request to the /api/think handler
  hpc,          \* "none" | "request" | "thinking" | "responded"
  hreq,         \* the request: [method, body]
  hres          \* the response sent: [status, ...body]

gvars == <<gpos, gphase, gmoves, gsel, gtok, gdec, gprev, glast, gwin, gply>>

tvars == <<inp, tpc, clock, timeLimit, maxDepth, depth, aspiration, windowAlpha,
           windowBeta, rootMoves, best, bestScore, result, stack, ret, tt,
           killers, history, nodes, aborted, accepted, aborts, cleanBest>>

uvars == <<ucall, uout>>

hvars == <<hpc, hreq, hres>>

xvars == <<uvars, hvars>>

vars == <<gvars, tvars, uvars, hvars>>

Position(bd, hB, hW, side) == [bd |-> bd, hB |-> hB, hW |-> hW, side |-> side]

\* A board from a set of <<r, c, side, type>>.
setup(ps) ==
  [r \in Rows |-> [c \in Rows |->
     IF \E p \in ps : p[1] = r /\ p[2] = c
       THEN LET p == CHOOSE q \in ps : q[1] = r /\ q[2] = c IN Pc(p[3], p[4])
       ELSE NoPiece]]

\* The board turned by 180 degrees with the sides exchanged.
mirror(ps) == {<<8 - p[1], 8 - p[2], opp(p[3]), p[4]>> : p \in ps}

EmptyHand == [k \in SeqToSet(HandKinds) |-> 0]

hand(counts) ==
  [k \in SeqToSet(HandKinds) |->
     IF \E x \in counts : x[1] = k THEN (CHOOSE x \in counts : x[1] = k)[2] ELSE 0]

\* ------------------------------------------------------------------------
\* Bounds
\* ------------------------------------------------------------------------

\* Generation rounds played from an initial position.
MaxPlies == 1

\* ------------------------------------------------------------------------
\* The generator machine
\* ------------------------------------------------------------------------

\* Pieces of every kind around both promotion zones.
ZoneMen ==
  {<<0, 4, "black", "K">>, <<7, 0, "black", "P">>, <<5, 1, "black", "P">>,
   <<6, 2, "black", "L">>, <<5, 3, "black", "N">>, <<4, 5, "black", "N">>,
   <<6, 6, "black", "S">>, <<6, 8, "black", "G">>, <<3, 6, "black", "R">>,
   <<4, 1, "black", "B">>}

\* Pawns, a promoted pawn and pieces in hand.
DropMen ==
  {<<0, 4, "black", "K">>, <<2, 3, "black", "P">>, <<6, 5, "black", "PP">>,
   <<8, 4, "white", "K">>, <<6, 1, "white", "P">>, <<7, 5, "white", "G">>}

\* Captures of a king, of a promoted piece, of plain pieces, and a capture
\* inside the promotion zone.
CaptureMen ==
  {<<4, 4, "black", "K">>, <<7, 3, "black", "G">>, <<1, 7, "black", "R">>,
   <<3, 2, "black", "S">>, <<5, 6, "black", "P">>,
   <<8, 4, "white", "K">>, <<4, 7, "white", "PR">>, <<5, 4, "white", "P">>,
   <<2, 1, "white", "PB">>, <<6, 6, "white", "S">>}

\* A promoted bishop and a promoted rook with long lines, a rook behind a
\* piece of its side, a lance.
SliderMen ==
  {<<0, 0, "black", "K">>, <<4, 4, "black", "PB">>, <<4, 1, "black", "R">>,
   <<1, 7, "black", "L">>,
   <<8, 8, "white", "K">>, <<6, 6, "white", "P">>, <<7, 2, "white", "PR">>}

GenPositions ==
  {Position(setup(ZoneMen \cup mirror(ZoneMen)), EmptyHand, EmptyHand, s) : s \in Sides}
  \cup {Position(setup(DropMen), hand({<<"P", 1>>, <<"N", 1>>}),
                 hand({<<"L", 2>>}), s) : s \in Sides}
  \cup {Position(setup(CaptureMen), EmptyHand, hand({<<"P", 1>>}), s) : s \in Sides}
  \cup {Position(setup(SliderMen), EmptyHand, EmptyHand, s) : s \in Sides}

NoMove == DropRec("none", -1, -1)
NoDecoded == [kind |-> "none"]

GenStart ==
  /\ gpos \in GenPositions
  /\ gphase = "pos"
  /\ gmoves = <<>>
  /\ gsel = NoMove
  /\ gtok = NullMove
  /\ gdec = NoDecoded
  /\ gprev = gpos
  /\ glast = NoMove
  /\ gwin = "null"
  /\ gply = 0

\* enumerateMovesGeneric on the current position.
Generate ==
  /\ gphase = "pos"
  /\ gwin = "null"
  /\ gply < MaxPlies
  /\ gmoves' = enumerateMovesGeneric(gpos.bd, gpos.hB, gpos.hW, gpos.side)
  /\ gphase' = "gen"
  /\ gply' = gply + 1
  /\ UNCHANGED <<gpos, gsel, gtok, gdec, gprev, glast, gwin, tvars, xvars>>

\* One generated move through the codec: pack, then unpack on the same board.
Pick ==
  /\ gphase = "gen"
  /\ \E i \in 1 .. Len(gmoves) :
       /\ gsel' = gmoves[i]
       /\ gtok' = pack(gmoves[i])
       /\ gdec' = unpack(pack(gmoves[i]), gpos.bd)
  /\ gphase' = "picked"
  /\ UNCHANGED <<gpos, gmoves, gprev, glast, gwin, gply, tvars, xvars>>

\* applyOneMove of the picked move; the other side is to move next.
Apply ==
  /\ gphase = "picked"
  /\ LET res == applyOneMove(gpos.bd, gpos.hB, gpos.hW, gpos.side, gsel)
     IN /\ gpos' = Position(res.bd, res.hB, res.hW, opp(gpos.side))
        /\ gwin' = res.winner
  /\ gprev' = gpos
  /\ glast' = gsel
  /\ gphase' = "pos"
  /\ gmoves' = <<>>
  /\ gsel' = NoMove
  /\ gtok' = NullMove
  /\ gdec' = NoDecoded
  /\ UNCHANGED <<gply, tvars, xvars>>

\* ------------------------------------------------------------------------
\* search (ai-core.ts 395-500), one frame per call
\* ------------------------------------------------------------------------

\* Search calls entered before the deadline in one call of think.
MaxNodes == 50

\* What a finished call returned.  via is a history field, read by the
\* properties only: the return statement taken, "abort" (401), "king" (405,
\* 406), "tt" (410-412), "leaf" (417), "futile" (422), "null" (453),
\* "nomoves" (460), "cut" (493 then 499), "end" (499).
NoRet == [score |-> 0, move |-> NullMove, valid |-> FALSE, via |-> "none"]
Ret(score, move, via) == [score |-> score, move |-> move, valid |-> TRUE, via |-> via]

\* The parameters of a call and its locals (a, bestMove, ordered, i, and the
\* best move of the entry read at line 408).  kind tells which call site made
\* it: "root" (365), "null" (443), "first" (477), "nw" (479), "re" (481).
Frame(bd, hB, hW, side, d, alpha, beta, key, ply, pv, kind) ==
  [bd |-> bd, hB |-> hB, hW |-> hW, side |-> side, depth |-> d, alpha |-> alpha,
   beta |-> beta, key |-> key, ply |-> ply, pv |-> pv, kind |-> kind,
   pc |-> "enter", tteBest |-> NullMove, a |-> alpha, bestMove |-> NullMove,
   ordered |-> <<>>, i |-> 0]

Top == stack[Len(stack)]
Pop(stk) == SubSeq(stk, 1, Len(stk) - 1)
SetTop(stk, f) == [stk EXCEPT ![Len(stk)] = f]

\* TransTable.get / set / now (lines 246, 247, 252).
ttHas(t, key) == key \in DOMAIN t.map
ttSet(t, e) ==
  [t EXCEPT !.map = [k \in (DOMAIN t.map) \cup {e.key} |->
                       IF k = e.key THEN e ELSE t.map[k]]]
ttNow(t) == t.tick
EmptyTT == [map |-> <<>>, tick |-> 1]

\* A variant of timeUp for a search that never looks at the clock.
timeUpNever(clk, limitMs) == FALSE

\* Line 401.
timeUp(clk, limitMs) == clk > limitMs

\* Math.abs(x - y) > d, without forming the difference.
absDiffGt(x, y, d) == IF x >= y THEN x > y + d ELSE y > x + d

\* A variant of entryResult that trusts an entry of any depth.
entryResultAnyDepth(f, t) ==
  LET has == ttHas(t, f.key)
      tte == t.map[f.key]
      ev == standPat(f.bd, f.hB, f.hW, f.side)
  IN IF findKing(f.bd, f.side) = <<>> THEN Ret(-WIN + SC(f.ply), NullMove, "king")
     ELSE IF findKing(f.bd, opp(f.side)) = <<>> THEN Ret(WIN - SC(f.ply), NullMove, "king")
     ELSE IF has /\ tte.flag = 0 THEN Ret(tte.score, tte.best, "tt")
     ELSE IF has /\ tte.flag = 1 /\ tte.score <= f.alpha THEN Ret(f.alpha, tte.best, "tt")
     ELSE IF has /\ tte.flag = 2 /\ tte.score >= f.beta THEN Ret(f.beta, tte.best, "tt")
     ELSE IF f.depth <= 0
       THEN Ret(quiescence(f.bd, f.hB, f.hW, f.side, f.alpha, f.beta), NullMove, "leaf")
     ELSE IF f.depth <= 2 /\ absDiffGt(f.beta, f.alpha, SC(200)) /\ ev + SC(150) < f.alpha
       THEN Ret(ev, NullMove, "futile")
     ELSE NoRet

\* Lines 403-423 for a call that passed the time check: the value returned
\* there, or NoRet when the call goes on.
entryResult(f, t) ==
  LET has == ttHas(t, f.key)
      tte == t.map[f.key]
      usable == has /\ tte.depth >= f.depth
      ev == standPat(f.bd, f.hB, f.hW, f.side)
  IN IF findKing(f.bd, f.side) = <<>> THEN Ret(-WIN + SC(f.ply), NullMove, "king")
     ELSE IF findKing(f.bd, opp(f.side)) = <<>> THEN Ret(WIN - SC(f.ply), NullMove, "king")
     ELSE IF usable /\ tte.flag = 0 THEN Ret(tte.score, tte.best, "tt")
     ELSE IF usable /\ tte.flag = 1 /\ tte.score <= f.alpha THEN Ret(f.alpha, tte.best, "tt")
     ELSE IF usable /\ tte.flag = 2 /\ tte.score >= f.beta THEN Ret(f.beta, tte.best, "tt")
     ELSE IF f.depth <= 0
       THEN Ret(quiescence(f.bd, f.hB, f.hW, f.side, f.alpha, f.beta), NullMove, "leaf")
     ELSE IF f.depth <= 2 /\ absDiffGt(f.beta, f.alpha, SC(200)) /\ ev + SC(150) < f.alpha
       THEN Ret(ev, NullMove, "futile")
     ELSE NoRet

\* Lines 425-438.
inCheck(bd, side) ==
  LET k == findKing(bd, side)
  IN \E r \in Rows, c \in Rows :
       /\ bd[r][c] # NoPiece
       /\ bd[r][c].side # side
       /\ \E j \in 1 .. Len(legalMoves(bd, r, c)) : legalMoves(bd, r, c)[j] = k

\* The key handed to the null-move child (line 446).
nullKey(f) == f.key

\* A variant of nullChild that searches the null move as deep as the node.
nullChildSameDepth(f) ==
  Frame(f.bd, f.hB, f.hW, opp(f.side), f.depth, -f.beta, -f.beta + SC(1),
        nullKey(f), f.ply + 1, NullMove, "null")

\* Lines 441-448: the call of the null-move child.
nullChild(f) ==
  Frame(f.bd, f.hB, f.hW, opp(f.side), f.depth - 3 - 1, -f.beta, -f.beta + SC(1),
        nullKey(f), f.ply + 1, NullMove, "null")

\* Lines 477-481: the call for move m of frame f, by call site.
childFrame(f, m, kind) ==
  LET res == applyOneMove(f.bd, f.hB, f.hW, f.side, m)
      o == opp(f.side)
  IN Frame(res.bd, res.hB, res.hW, o, f.depth - 1,
           IF kind = "nw" THEN -(f.a + SC(1)) ELSE -f.beta, -f.a,
           keyBoard(res.bd, res.hB, res.hW, o), f.ply + 1,
           IF kind = "re" THEN pack(m) ELSE NullMove, kind)

\* Lines 456-465: the call returns (no move) or enters its loop.
BeginMoves(f) ==
  LET raw == enumerateMovesGeneric(f.bd, f.hB, f.hW, f.side)
  IN IF raw = <<>>
       THEN /\ stack' = Pop(stack)
            /\ ret' = Ret(standPat(f.bd, f.hB, f.hW, f.side) - SC(200), NullMove,
                             "nomoves")
       ELSE /\ stack' = SetTop(stack,
                 [f EXCEPT !.pc = "loop", !.i = 1, !.a = f.alpha, !.bestMove = NullMove,
                           !.ordered = orderMoves(f.bd, f.side, raw, f.ply, history,
                                                  killers, f.pv, f.tteBest)])
            /\ ret' = NoRet

\* The node a call searches: its position and the side to move.
nodeOf(f) == Position(f.bd, f.hB, f.hW, f.side)

\* Lines 497-498: the entry a call stores.  by is a history field, read by
\* the properties only: the node of the storing call.
entryOf(f, a, bestMove, t) ==
  [key |-> f.key, depth |-> f.depth, score |-> a,
   flag |-> IF a <= f.alpha THEN 1 ELSE IF a >= f.beta THEN 2 ELSE 0,
   best |-> bestMove, age |-> ttNow(t), by |-> nodeOf(f)]

\* A variant of Settle that keeps the move the child call reported, when
\* it reported one, in place of the move made at this node.
SettleChildMove(f, m, sc) ==
  LET better == sc > f.a
      a1 == IF better THEN sc ELSE f.a
      bm1 == IF better
               THEN IF ret.valid /\ ret.move # NullMove THEN ret.move ELSE pack(m)
               ELSE f.bestMove
      cut == better /\ a1 >= f.beta
  IN IF cut \/ f.i = Len(f.ordered)
       THEN /\ stack' = Pop(stack)
            /\ ret' = Ret(a1, bm1, IF cut THEN "cut" ELSE "end")
            /\ tt' = ttSet(tt, entryOf(f, a1, bm1, tt))
            /\ history' = IF cut /\ m.kind = "move"
                            THEN addHistory(history, f.side, m.from, m.to, f.depth)
                            ELSE history
            /\ killers' = IF cut THEN pushKiller(killers, f.ply, pack(m)) ELSE killers
       ELSE /\ stack' = SetTop(stack, [f EXCEPT !.a = a1, !.bestMove = bm1,
                                                !.i = f.i + 1, !.pc = "loop"])
            /\ ret' = NoRet
            /\ UNCHANGED <<tt, history, killers>>

\* Lines 487-500 with the score sc of move m = ordered[i]: alpha update,
\* cutoff bookkeeping, next move, or the store and the return.
Settle(f, m, sc) ==
  LET better == sc > f.a
      a1 == IF better THEN sc ELSE f.a
      bm1 == IF better THEN pack(m) ELSE f.bestMove
      cut == better /\ a1 >= f.beta
  IN IF cut \/ f.i = Len(f.ordered)
       THEN /\ stack' = Pop(stack)
            /\ ret' = Ret(a1, bm1, IF cut THEN "cut" ELSE "end")
            /\ tt' = ttSet(tt, entryOf(f, a1, bm1, tt))
            /\ history' = IF cut /\ m.kind = "move"
                            THEN addHistory(history, f.side, m.from, m.to, f.depth)
                            ELSE history
            /\ killers' = IF cut THEN pushKiller(killers, f.ply, pack(m)) ELSE killers
       ELSE /\ stack' = SetTop(stack, [f EXCEPT !.a = a1, !.bestMove = bm1,
                                                !.i = f.i + 1, !.pc = "loop"])
            /\ ret' = NoRet
            /\ UNCHANGED <<tt, history, killers>>

thinkFrame == <<inp, timeLimit, maxDepth, depth, aspiration, windowAlpha, windowBeta,
                rootMoves, best, bestScore, result, accepted, aborts, cleanBest>>

\* A call begins: lines 401-465 up to the first recursive call.
SearchEnter ==
  /\ tpc = "search" /\ stack # <<>> /\ Top.pc = "enter"
  /\ IF timeUp(clock, timeLimit) THEN TRUE ELSE nodes < MaxNodes
  /\ LET f == [Top EXCEPT !.tteBest = IF ttHas(tt, Top.key)
                                        THEN tt.map[Top.key].best ELSE NullMove]
         r == entryResult(f, tt)
     IN IF timeUp(clock, timeLimit)
          THEN /\ stack' = Pop(stack)
               /\ ret' = Ret(f.alpha, NullMove, "abort")
               /\ aborted' = TRUE
               /\ nodes' = nodes
          ELSE /\ aborted' = aborted
               /\ nodes' = nodes + 1
               /\ IF r.valid
                    THEN stack' = Pop(stack) /\ ret' = r
                    ELSE IF f.depth >= 3 /\ ~inCheck(f.bd, f.side)
                      THEN /\ stack' = Append(SetTop(stack, [f EXCEPT !.pc = "null"]),
                                              nullChild(f))
                           /\ ret' = NoRet
                      ELSE BeginMoves(f)
  /\ UNCHANGED <<tt, killers, history, tpc, clock, thinkFrame, gvars, xvars>>

\* The null-move child returned: lines 450-454, then on to the moves.
SearchNullRet ==
  /\ tpc = "search" /\ stack # <<>> /\ Top.pc = "null" /\ ret.valid
  /\ IF -ret.score >= Top.beta
       THEN stack' = Pop(stack) /\ ret' = Ret(Top.beta, NullMove, "null")
       ELSE BeginMoves(Top)
  /\ UNCHANGED <<tt, killers, history, tpc, clock, nodes, aborted, thinkFrame, gvars, xvars>>

\* A variant of kingCaptureScore with the sign of a loss.
kingCaptureScoreLost(ply) == -WIN + SC(ply)

\* Line 473: the score of a move that captures the king.
kingCaptureScore(ply) == WIN - SC(ply)

\* One pass of the loop of line 467 up to its first call: a king capture is
\* scored at once (line 473), any other move is searched.
SearchLoop ==
  /\ tpc = "search" /\ stack # <<>> /\ Top.pc = "loop"
  /\ LET f == Top
         m == f.ordered[f.i]
         kind == IF f.i = 1 THEN "first" ELSE "nw"
     IN IF applyOneMove(f.bd, f.hB, f.hW, f.side, m).winner # "null"
          THEN Settle(f, m, kingCaptureScore(f.ply))
          ELSE /\ stack' = Append(SetTop(stack, [f EXCEPT !.pc = kind]),
                                  childFrame(f, m, kind))
               /\ ret' = NoRet
               /\ UNCHANGED <<tt, history, killers>>
  /\ UNCHANGED <<tpc, clock, nodes, aborted, thinkFrame, gvars, xvars>>

\* A child returned: the re-search of line 481, or the rest of the pass.
SearchChildRet ==
  /\ tpc = "search" /\ stack # <<>> /\ Top.pc \in {"first", "nw", "re"} /\ ret.valid
  /\ LET f == Top
         m == f.ordered[f.i]
         tscore == -ret.score
     IN IF f.pc = "nw" /\ tscore > f.a /\ tscore < f.beta
          THEN /\ stack' = Append(SetTop(stack, [f EXCEPT !.pc = "re"]),
                                  childFrame(f, m, "re"))
               /\ ret' = NoRet
               /\ UNCHANGED <<tt, history, killers>>
          ELSE Settle(f, m, tscore)
  /\ UNCHANGED <<tpc, clock, nodes, aborted, thinkFrame, gvars, xvars>>

\* ------------------------------------------------------------------------
\* think (ai-core.ts 339-382)
\* ------------------------------------------------------------------------

INF == SC(1000000000)

\* timeLimit < 1500 ? 5 : timeLimit < 3000 ? 6 : 7
maxDepthFor(limit) == IF limit < 1500 THEN 5 ELSE IF limit < 3000 THEN 6 ELSE 7

\* Math.max(30, Math.floor(aspiration * 0.9)), aspiration an integer.
nextAspiration(asp) == Max(30, (asp * 9) \div 10)

\* Line 362.
remainTooSmall(limit, clk) == limit - clk < 100

\* A variant of fallbackMove that holds no move until a search returns one.
fallbackNone(moves) == NullMove

\* Line 358: the move returned when no iteration is accepted.
fallbackMove(moves) == pack(moves[1])

\* Lines 345-358: the budget, the root moves, the fallback move.
ThinkStart ==
  /\ tpc = "start"
  /\ timeLimit' = Min(inp.timeMs, 8000)
  /\ maxDepth' = maxDepthFor(timeLimit')
  /\ rootMoves' = enumerateMovesGeneric(inp.board, inp.handBlack, inp.handWhite, inp.side)
  /\ IF rootMoves' = <<>>
       THEN /\ tpc' = "done"
            /\ result' = NullMove
            /\ UNCHANGED <<best, cleanBest>>
       ELSE /\ tpc' = "loop"
            /\ best' = fallbackMove(rootMoves')
            /\ cleanBest' = best'
            /\ UNCHANGED result
  /\ UNCHANGED <<inp, clock, depth, aspiration, windowAlpha, windowBeta, bestScore,
                 stack, ret, tt, killers, history, nodes, aborted, accepted, aborts,
                 gvars, xvars>>

\* Lines 360-365: the loop test, the remaining time, the root call; or the
\* return of line 381.
ThinkLoop ==
  /\ tpc = "loop"
  /\ IF depth > maxDepth \/ remainTooSmall(timeLimit, clock)
       THEN /\ tpc' = "done"
            /\ result' = best
            /\ UNCHANGED <<stack, aborted>>
       ELSE /\ tpc' = "search"
            /\ stack' = << Frame(inp.board, inp.handBlack, inp.handWhite, inp.side,
                                 depth, windowAlpha, windowBeta,
                                 keyBoard(inp.board, inp.handBlack, inp.handWhite, inp.side),
                                 0, best, "root") >>
            /\ aborted' = FALSE
            /\ UNCHANGED result
  /\ ret' = NoRet
  /\ UNCHANGED <<inp, clock, timeLimit, maxDepth, depth, aspiration, windowAlpha,
                 windowBeta, rootMoves, best, bestScore, tt, killers, history, nodes,
                 accepted, aborts, cleanBest, gvars, xvars>>

\* A variant of windowAfterFailLow that searches the same window again.
windowAfterFailLowSame(alpha, beta, score, asp) == [alpha |-> alpha, beta |-> beta]

\* Line 367: the window after a score <= windowAlpha.
windowAfterFailLow(alpha, beta, score, asp) ==
  [alpha |-> alpha - SC(asp), beta |-> score + SC(asp)]

\* Line 368: the window after a score >= windowBeta.
windowAfterFailHigh(alpha, beta, score, asp) ==
  [alpha |-> score - SC(asp), beta |-> beta + SC(asp)]

\* Line 367: the test for a score at or below the window.
failsLow(score, alpha) == score <= alpha

\* A variant of failsHigh that lets every score pass.
failsHighNever(score, beta) == FALSE

\* Line 368: the test for a score at or above the window.
failsHigh(score, beta) == score >= beta

\* Lines 367-378: the root call returned.
ThinkAfterSearch ==
  /\ tpc = "search" /\ stack = <<>> /\ ret.valid
  /\ LET score == ret.score
         move == ret.move
     IN IF failsLow(score, windowAlpha)
          THEN /\ windowAlpha' =
                    windowAfterFailLow(windowAlpha, windowBeta, score, aspiration).alpha
               /\ windowBeta' =
                    windowAfterFailLow(windowAlpha, windowBeta, score, aspiration).beta
               /\ tpc' = "loop"
               /\ UNCHANGED <<best, bestScore, depth, aspiration, result, accepted,
                              aborts, cleanBest>>
          ELSE IF failsHigh(score, windowBeta)
            THEN /\ windowBeta' =
                      windowAfterFailHigh(windowAlpha, windowBeta, score, aspiration).beta
                 /\ windowAlpha' =
                      windowAfterFailHigh(windowAlpha, windowBeta, score, aspiration).alpha
                 /\ tpc' = "loop"
                 /\ UNCHANGED <<best, bestScore, depth, aspiration, result, accepted,
                                aborts, cleanBest>>
            ELSE /\ best' = IF move # NullMove THEN move ELSE best
                 /\ bestScore' = IF move # NullMove THEN score ELSE bestScore
                 /\ depth' = depth + 1
                 /\ aspiration' = nextAspiration(aspiration)
                 /\ windowAlpha' = bestScore' - SC(aspiration')
                 /\ windowBeta' = bestScore' + SC(aspiration')
                 /\ accepted' = accepted + 1
                 /\ aborts' = IF aborted THEN aborts + 1 ELSE aborts
                 /\ cleanBest' = IF aborted THEN cleanBest ELSE best'
                 /\ IF timeUp(clock, timeLimit)
                      THEN tpc' = "done" /\ result' = best'
                      ELSE tpc' = "loop" /\ UNCHANGED result
  /\ ret' = NoRet
  /\ UNCHANGED <<inp, clock, timeLimit, maxDepth, rootMoves, stack, tt, killers,
                 history, nodes, aborted, gvars, xvars>>

\* Time passes.  The program compares the clock with timeLimit - 100 (line
\* 362) and with timeLimit (lines 378, 401) only, so the clock moves from one
\* side of such a threshold to the other.
Tick ==
  /\ tpc \in {"loop", "search"}
  /\ clock' \in {t \in {timeLimit - 99, timeLimit + 1} : t > clock}
  /\ UNCHANGED <<inp, tpc, timeLimit, maxDepth, depth, aspiration, windowAlpha,
                 windowBeta, rootMoves, best, bestScore, result, stack, ret, tt,
                 killers, history, nodes, aborted, accepted, aborts, cleanBest, gvars, xvars>>

\* ------------------------------------------------------------------------
\* Inputs and specifications
\* ------------------------------------------------------------------------

TimeBudgets == {50, 300}

KingsOnly == {<<0, 0, "black", "K">>, <<8, 8, "white", "K">>}
PawnRace == {<<8, 8, "black", "K">>, <<0, 0, "white", "K">>, <<7, 4, "black", "P">>}
KingEnPrise == {<<0, 0, "black", "K">>, <<8, 7, "white", "K">>, <<7, 7, "black", "G">>}
LoneKing == {<<8, 8, "white", "K">>}
\* The side to move has its king and the other side has none.
KingGone == {<<0, 0, "black", "K">>}
\* Black's gold on (7,7), covered by the pawn, leaves white no reply that
\* keeps its king: the second iteration scores far above the first.
MateNet == {<<0, 0, "black", "K">>, <<8, 8, "white", "K">>, <<6, 6, "black", "G">>,
            <<6, 7, "black", "P">>}

\* White's king is shut in by pieces of its own that cannot move and white
\* has nothing else: after any move of black, white has no move.
Stalemate ==
  {<<8, 8, "black", "K">>, <<0, 0, "white", "K">>, <<0, 1, "white", "P">>,
   <<1, 0, "white", "N">>, <<1, 1, "white", "N">>}

\* Black's king is attacked by the silver and shut in by pieces of its own:
\* black takes the silver or pushes the pawn and leaves the king to be taken.
KingAttacked ==
  {<<8, 8, "black", "K">>, <<8, 7, "black", "P">>, <<7, 8, "black", "N">>,
   <<1, 4, "black", "P">>, <<0, 0, "white", "K">>, <<7, 7, "white", "S">>}

\* Both kings shut in by pieces of their own that cannot move, and one
\* pawn each that can: one move at every node, so that every iteration up
\* to the deepest one is searched within MaxNodes calls.
Boxed ==
  {<<8, 8, "black", "K">>, <<8, 7, "black", "P">>, <<7, 8, "black", "N">>,
   <<7, 7, "black", "N">>, <<1, 4, "black", "P">>,
   <<0, 0, "white", "K">>, <<0, 1, "white", "P">>, <<1, 0, "white", "N">>,
   <<1, 1, "white", "N">>, <<7, 3, "white", "P">>}

\* Budgets below 1500 ms, below 3000 ms and above the limit of 8000 ms.
DeepBudgets == {300, 2000, 9000}

ThinkInputs ==
  {[board |-> setup(men), handBlack |-> EmptyHand, handWhite |-> EmptyHand,
    side |-> "black", timeMs |-> ms] :
     men \in {KingsOnly, PawnRace, KingEnPrise, LoneKing, KingGone, MateNet,
              Stalemate, KingAttacked},
     ms \in TimeBudgets}
  \cup {[board |-> setup(Boxed), handBlack |-> EmptyHand, handWhite |-> EmptyHand,
         side |-> "black", timeMs |-> ms] : ms \in DeepBudgets}

GenIdle ==
  /\ gpos = Position(EmptyBoard, EmptyHand, EmptyHand, "black")
  /\ gphase = "idle"
  /\ gmoves = <<>>
  /\ gsel = NoMove
  /\ gtok = NullMove
  /\ gdec = NoDecoded
  /\ gprev = gpos
  /\ glast = NoMove
  /\ gwin = "null"
  /\ gply = 0

ThinkBlank ==
  /\ clock = 0
  /\ timeLimit = 0 /\ maxDepth = 0
  /\ depth = 1 /\ aspiration = 50
  /\ windowAlpha = -INF /\ windowBeta = INF
  /\ rootMoves = <<>>
  /\ best = NullMove /\ bestScore = -INF
  /\ result = NullMove
  /\ stack = <<>> /\ ret = NoRet
  /\ tt = EmptyTT /\ killers = <<>> /\ history = <<>>
  /\ nodes = 0
  /\ aborted = FALSE /\ accepted = 0 /\ aborts = 0
  /\ cleanBest = NullMove

NoCall == [fn |-> "none"]

NoOut == [fn |-> "none"]

UnitIdle == ucall = NoCall /\ uout = NoOut

NoRequest == [method |-> "none"]
NoResponse == [status |-> 0]

HandlerIdle == hpc = "none" /\ hreq = NoRequest /\ hres = NoResponse

Init ==
  /\ inp \in ThinkInputs
  /\ tpc = "start"
  /\ ThinkBlank
  /\ GenIdle
  /\ UnitIdle
  /\ HandlerIdle

Next ==
  \/ ThinkStart \/ ThinkLoop \/ ThinkAfterSearch
  \/ SearchEnter \/ SearchNullRet \/ SearchLoop \/ SearchChildRet
  \/ Tick

Spec == Init /\ [][Next]_vars

InitGen ==
  /\ GenStart
  /\ inp = [board |-> EmptyBoard, handBlack |-> EmptyHand, handWhite |-> EmptyHand,
            side |-> "black", timeMs |-> 0]
  /\ tpc = "idle"
  /\ ThinkBlank
  /\ UnitIdle
  /\ HandlerIdle

NextGen == Generate \/ Pick \/ Apply

SpecGen == InitGen /\ [][NextGen]_vars

\* ------------------------------------------------------------------------
\* Generated moves, and drops the hand may not hold
\* ------------------------------------------------------------------------

\* Hands with entries left out: a Hand from a request may lack kinds.
PartialHands == {<<>>, [P |-> 2], [R |-> 1, P |-> 0]}

HandPositions ==
  GenPositions
  \cup {Position(setup(DropMen), h, h, s) : h \in PartialHands, s \in Sides}

HandsStart ==
  /\ gpos \in HandPositions
  /\ gphase = "pos"
  /\ gmoves = <<>>
  /\ gsel = NoMove
  /\ gtok = NullMove
  /\ gdec = NoDecoded
  /\ gprev = gpos
  /\ glast = NoMove
  /\ gwin = "null"
  /\ gply = 0

\* The squares a drop is tried on.
DropSquares == {<<4, 4>>, <<3, 0>>}

\* applyOneMove of a drop of any kind on an empty square, whatever the hand
\* of the side to move holds (lines 132-135).
Drop ==
  /\ gphase = "pos"
  /\ gwin = "null"
  /\ gply < MaxPlies
  /\ \E k \in 1 .. Len(HandKinds), q \in DropSquares :
       /\ gpos.bd[q[1]][q[2]] = NoPiece
       /\ \E m \in {DropRec(HandKinds[k], q[1], q[2])} :
            \E res \in {applyOneMove(gpos.bd, gpos.hB, gpos.hW, gpos.side, m)} :
              /\ gpos' = Position(res.bd, res.hB, res.hW, opp(gpos.side))
              /\ gwin' = res.winner
              /\ glast' = m
  /\ gprev' = gpos
  /\ gphase' = "dropped"
  /\ UNCHANGED <<gmoves, gsel, gtok, gdec, gply, tvars, xvars>>

InitHands ==
  /\ HandsStart
  /\ inp = [board |-> EmptyBoard, handBlack |-> EmptyHand, handWhite |-> EmptyHand,
            side |-> "black", timeMs |-> 0]
  /\ tpc = "idle"
  /\ ThinkBlank
  /\ UnitIdle
  /\ HandlerIdle

NextHands == Generate \/ Pick \/ Apply \/ Drop

SpecHands == InitHands /\ [][NextHands]_vars

\* ------------------------------------------------------------------------
\* Single functions of the engine on drawn arguments
\* ------------------------------------------------------------------------

ThinkIdle ==
  /\ inp = [board |-> EmptyBoard, handBlack |-> EmptyHand, handWhite |-> EmptyHand,
            side |-> "black", timeMs |-> 0]
  /\ tpc = "idle"
  /\ ThinkBlank

\* A piece more on an empty square, or one more in a hand.
OnBoard(side, type, r, c) ==
  [where |-> "board", side |-> side, type |-> type, r |-> r, c |-> c]
InHand(side, type) == [where |-> "hand", side |-> side, type |-> type]

addPiece(pos, a) ==
  IF a.where = "board"
    THEN [pos EXCEPT !.bd = [pos.bd EXCEPT ![a.r][a.c] = Pc(a.side, a.type)]]
    ELSE IF a.side = "black"
      THEN [pos EXCEPT !.hB = handSet(pos.hB, a.type, handGet(pos.hB, a.type) + 1)]
      ELSE [pos EXCEPT !.hW = handSet(pos.hW, a.type, handGet(pos.hW, a.type) + 1)]

\* Squares on and off the lines of the rooks, bishops and lances of
\* GenPositions, and next to the kings.
EvalSquares == {<<2, 7>>, <<3, 7>>, <<4, 2>>, <<7, 4>>, <<0, 0>>, <<5, 5>>}
EvalTypes == {"P", "N", "G", "R", "PB"}

Additions(pos) ==
  {OnBoard(sd, t, q[1], q[2]) :
     sd \in Sides, t \in EvalTypes, q \in {x \in EvalSquares : pos.bd[x[1]][x[2]] = NoPiece}}
  \cup {InHand(sd, HandKinds[k]) : sd \in Sides, k \in 1 .. Len(HandKinds)}

\* evaluateBoard on a position and on the same position with one piece more.
Evaluate ==
  /\ ucall = NoCall
  /\ \E pos \in GenPositions :
       \E a \in Additions(pos) :
         LET more == addPiece(pos, a)
         IN /\ ucall' = [fn |-> "evaluateBoard", pos |-> pos, add |-> a]
            /\ uout' = [before |-> evaluateBoard(pos.bd, pos.hB, pos.hW),
                        after |-> evaluateBoard(more.bd, more.hB, more.hW)]
  /\ UNCHANGED <<gvars, tvars, hvars>>

canTakeKing(pos) ==
  LET moves == enumerateMovesGeneric(pos.bd, pos.hB, pos.hW, pos.side)
  IN \E j \in 1 .. Len(moves) :
       applyOneMove(pos.bd, pos.hB, pos.hW, pos.side, moves[j]).winner # "null"

\* Positions in which the side to move can take the king.
KingCapturePositions ==
  {pos \in GenPositions
          \cup {Position(setup(KingEnPrise), EmptyHand, EmptyHand, "black")} :
     canTakeKing(pos)}

\* The plies at which a king capture is scored.
MaxScorePly == 3

\* Line 473 for a move of pos that takes the king, in a call at ply.
ScoreInSearch ==
  /\ ucall = NoCall
  /\ \E pos \in KingCapturePositions, ply \in 0 .. MaxScorePly :
       LET moves == enumerateMovesGeneric(pos.bd, pos.hB, pos.hW, pos.side)
       IN \E j \in 1 .. Len(moves) :
            /\ applyOneMove(pos.bd, pos.hB, pos.hW, pos.side, moves[j]).winner # "null"
            /\ ucall' = [fn |-> "search", pos |-> pos, ply |-> ply, move |-> moves[j]]
            /\ uout' = [score |-> kingCaptureScore(ply)]
  /\ UNCHANGED <<gvars, tvars, hvars>>

\* Lines 415-418: a call of search at ply with depth 0 and the full window
\* hands pos to quiescence, which scores the capture of the king (line 332).
ScoreInQuiescence ==
  /\ ucall = NoCall
  /\ \E pos \in KingCapturePositions, ply \in 0 .. MaxScorePly :
       /\ ucall' = [fn |-> "quiescence", pos |-> pos, ply |-> ply]
       /\ uout' = [score |->
                     entryResult(Frame(pos.bd, pos.hB, pos.hW, pos.side, 0, -INF, INF,
                                       keyBoard(pos.bd, pos.hB, pos.hW, pos.side), ply,
                                       NullMove, "first"), EmptyTT).score]
  /\ UNCHANGED <<gvars, tvars, hvars>>

\* The plies and the tokens of the cutoffs.
MaxCutPly == 1
KillerTokens == {<<"m", 0, 0, 0, 1, 0>>, <<"m", 7, 7, 8, 7, 1>>, <<"d", "P", 4, 4>>}

\* Line 491: a beta cutoff by move pm at ply, any number of times.
Cutoff ==
  /\ ucall.fn \in {"none", "pushKiller"}
  /\ \E ply \in 0 .. MaxCutPly, pm \in KillerTokens :
       /\ killers' = pushKiller(killers, ply, pm)
       /\ ucall' = [fn |-> "pushKiller", ply |-> ply, pm |-> pm,
                    before |-> killersAt(killers, ply)]
       /\ uout' = [list |-> killersAt(killers', ply)]
  /\ UNCHANGED <<gvars, hvars, inp, tpc, clock, timeLimit, maxDepth, depth, aspiration,
                 windowAlpha, windowBeta, rootMoves, best, bestScore, result, stack, ret,
                 tt, history, nodes, aborted, accepted, aborts, cleanBest>>

InitUnit == UnitIdle /\ GenIdle /\ ThinkIdle /\ HandlerIdle

NextUnit == Evaluate \/ ScoreInSearch \/ ScoreInQuiescence \/ Cutoff

SpecUnit == InitUnit /\ [][NextUnit]_vars

\* ------------------------------------------------------------------------
\* The calls of quiescence along one chain of its moves
\* ------------------------------------------------------------------------

\* Rooks, bishops and silvers of black in and around white's camp: more
\* than 40 captures and promotions, some captures losing material.
Crowded ==
  {<<0, 0, "black", "K">>, <<8, 0, "white", "K">>,
   <<7, 4, "black", "R">>, <<6, 1, "black", "R">>, <<7, 7, "black", "B">>,
   <<5, 6, "black", "P">>, <<6, 6, "white", "G">>, <<3, 4, "white", "P">>,
   <<6, 8, "white", "L">>, <<2, 2, "black", "B">>, <<5, 3, "black", "N">>,
   <<8, 5, "black", "S">>, <<5, 7, "black", "S">>}

QuiescenceRoots ==
  GenPositions
  \cup {Position(setup(men), EmptyHand, EmptyHand, s) : men \in {Crowded, PawnRace},
                                                         s \in Sides}

\* Calls of quiescence below the first one.
MaxChain == 2

\* Lines 315-328 of a call of quiescence on pos, n calls below the first.
quiescenceCall(pos, n, m) ==
  /\ ucall' = [fn |-> "quiescenceMoves", pos |-> pos, n |-> n, move |-> m]
  /\ uout' = [moves |-> quietMoves(pos.bd, pos.hB, pos.hW, pos.side)]

\* The leaf call of line 416.
QuiescenceEnter ==
  /\ ucall = NoCall
  /\ \E pos \in QuiescenceRoots : quiescenceCall(pos, 0, NoMove)
  /\ UNCHANGED <<gvars, tvars, hvars>>

\* Lines 330-332: the loop applies a move of its list and, unless the move
\* took the king, calls quiescence on the result with the other side to
\* move.  Which moves the loop reaches depends on the window; every move of
\* the list is reached for some window.
QuiescenceRecurse ==
  /\ ucall.fn = "quiescenceMoves"
  /\ ucall.n < MaxChain
  /\ \E i \in 1 .. Len(uout.moves) :
       LET pos == ucall.pos
           res == applyOneMove(pos.bd, pos.hB, pos.hW, pos.side, uout.moves[i])
       IN /\ res.winner = "null"
          /\ quiescenceCall(Position(res.bd, res.hB, res.hW, opp(pos.side)),
                            ucall.n + 1, uout.moves[i])
  /\ UNCHANGED <<gvars, tvars, hvars>>

NextQuiescence == QuiescenceEnter \/ QuiescenceRecurse

SpecQuiescence == InitUnit /\ [][NextQuiescence]_vars

\* ------------------------------------------------------------------------
\* Snapshots as objects: applyOneMove on a heap (ai-core.ts 41, 127-150)
\* ------------------------------------------------------------------------

\* A heap is a sequence of objects, an object's reference its index.  The
\* objects are the cells of the boards (a cell holds its piece or NoPiece)
\* and the hands.  A board is the array of the references of its cells.

\* A position put on the heap as new objects.
allocate(heap, pos) ==
  LET n == Len(heap)
      cells == [i \in 1 .. Len(AllSquares) |-> pos.bd[AllSquares[i][1]][AllSquares[i][2]]]
  IN [heap |-> heap \o cells \o <<pos.hB, pos.hW>>,
      bd |-> [r \in Rows |-> [c \in Rows |-> n + r * BOARD_SIZE + c + 1]],
      hB |-> n + Len(cells) + 1,
      hW |-> n + Len(cells) + 2]

\* The position a snapshot of references stands for in a heap.
deref(heap, snap) ==
  Position([r \in Rows |-> [c \in Rows |-> heap[snap.bd[r][c]]]],
           heap[snap.hB], heap[snap.hW], snap.side)

\* A variant of cloneBoardOnHeap that hands back the cells it was given.
cloneBoardShared(heap, src) == [heap |-> heap, bd |-> src]

\* Line 41: new rows of new cells, each holding a copy of the piece.
cloneBoardOnHeap(heap, src) ==
  LET n == Len(heap)
      cells == [i \in 1 .. Len(AllSquares) |->
                  heap[src[AllSquares[i][1]][AllSquares[i][2]]]]
  IN [heap |-> heap \o cells,
      bd |-> [r \in Rows |-> [c \in Rows |-> n + r * BOARD_SIZE + c + 1]]]

\* Lines 129, 130: {...h}.
copyHandOnHeap(heap, h) == [heap |-> Append(heap, heap[h]), h |-> Len(heap) + 1]

\* Lines 127-150, statement by statement, on references.
applyOneMoveOnHeap(heap, bd, hB, hW, side, m) ==
  LET c1 == cloneBoardOnHeap(heap, bd)
      c2 == copyHandOnHeap(c1.heap, hB)
      c3 == copyHandOnHeap(c2.heap, hW)
      nextB == c1.bd
      nextHB == c2.h
      nextHW == c3.h
      h0 == c3.heap
      mine == IF side = "black" THEN nextHB ELSE nextHW
  IN IF m.kind = "drop"
       THEN LET h1 == [h0 EXCEPT ![nextB[m.at.r][m.at.c]] = Pc(side, m.piece)]
                h2 == [h1 EXCEPT ![mine] =
                         handSet(h1[mine], m.piece,
                                 Max(0, handGet(h1[mine], m.piece) - 1))]
            IN [heap |-> h2, bd |-> nextB, hB |-> nextHB, hW |-> nextHW,
                winner |-> "null"]
       ELSE LET mover == h0[nextB[m.from.r][m.from.c]]
                base == demoteMap(m.took.type)
                capK == m.took # NoPiece /\ base = "K"
                capO == m.took # NoPiece /\ base # "K"
                h1 == IF capO
                        THEN [h0 EXCEPT ![mine] =
                                handSet(h0[mine], base, handGet(h0[mine], base) + 1)]
                        ELSE h0
                afterType == IF m.promote /\ isPromotableType(mover.type)
                               THEN toPromoted(mover.type) ELSE mover.type
                h2 == [h1 EXCEPT ![nextB[m.to.r][m.to.c]] = Pc(side, afterType)]
                h3 == [h2 EXCEPT ![nextB[m.from.r][m.from.c]] = NoPiece]
            IN [heap |-> h3, bd |-> nextB, hB |-> nextHB, hW |-> nextHW,
                winner |-> IF capK THEN side ELSE "null"]

SnapshotRoots ==
  {Position(setup(CaptureMen), EmptyHand, hand({<<"P", 1>>}), s) : s \in Sides}
  \cup {Position(setup(KingEnPrise), EmptyHand, EmptyHand, "black")}

\* Calls of applyOneMove below one another.
MaxApplied == 1

\* The caller's position, held by reference.  stack holds the snapshots in
\* use, the caller's first; made holds the position each stood for when it
\* was made, and size the length of the heap before it was made.
SnapshotRoot ==
  /\ ucall = NoCall
  /\ \E pos \in SnapshotRoots :
       \E a \in {allocate(<<>>, pos)} :
         /\ ucall' = [fn |-> "applyOneMove", m |-> NoMove, before |-> <<>>,
                      stack |-> << [bd |-> a.bd, hB |-> a.hB, hW |-> a.hW,
                                    side |-> pos.side] >>,
                      made |-> <<pos>>, size |-> <<0>>]
         /\ uout' = [heap |-> a.heap, winner |-> "null",
                     moves |-> enumerateMovesGeneric(pos.bd, pos.hB, pos.hW, pos.side)]
  /\ UNCHANGED <<gvars, tvars, hvars>>

\* Lines 470 and 331: search and quiescence apply a move of the position
\* they hold and keep the result for the call below.
SnapshotApply ==
  /\ ucall.fn = "applyOneMove"
  /\ Len(ucall.stack) <= MaxApplied
  /\ uout.winner = "null"
  /\ \E i \in 1 .. Len(uout.moves), top \in {ucall.stack[Len(ucall.stack)]} :
       \E res \in {applyOneMoveOnHeap(uout.heap, top.bd, top.hB, top.hW, top.side,
                                      uout.moves[i])},
          val \in {applyOneMove(ucall.made[Len(ucall.made)].bd,
                                ucall.made[Len(ucall.made)].hB,
                                ucall.made[Len(ucall.made)].hW, top.side,
                                uout.moves[i])} :
         \E snap \in {[bd |-> res.bd, hB |-> res.hB, hW |-> res.hW,
                        side |-> opp(top.side)]} :
           \E pos \in {deref(res.heap, snap)} :
             /\ ucall' = [fn |-> "applyOneMove", m |-> uout.moves[i],
                          before |-> uout.heap,
                          stack |-> Append(ucall.stack, snap),
                          made |-> Append(ucall.made,
                                          Position(val.bd, val.hB, val.hW, opp(top.side))),
                          size |-> Append(ucall.size, Len(uout.heap))]
             /\ uout' = [heap |-> res.heap, winner |-> res.winner,
                         moves |-> enumerateMovesGeneric(pos.bd, pos.hB, pos.hW,
                                                         pos.side)]
  /\ UNCHANGED <<gvars, tvars, hvars>>

\* The call below returned: its snapshot is dropped, and the objects made
\* for it with it; the loop goes on with the position it holds.
SnapshotReturn ==
  /\ ucall.fn = "applyOneMove"
  /\ Len(ucall.stack) >= 2
  /\ \E n \in {Len(ucall.stack)} :
       \E heap \in {SubSeq(uout.heap, 1, ucall.size[n])} :
         \E pos \in {deref(heap, ucall.stack[n - 1])} :
           /\ ucall' = [fn |-> "applyOneMove", m |-> NoMove, before |-> <<>>,
                        stack |-> SubSeq(ucall.stack, 1, n - 1),
                        made |-> SubSeq(ucall.made, 1, n - 1),
                        size |-> SubSeq(ucall.size, 1, n - 1)]
           /\ uout' = [heap |-> heap, winner |-> "null",
                       moves |-> enumerateMovesGeneric(pos.bd, pos.hB, pos.hW, pos.side)]
  /\ UNCHANGED <<gvars, tvars, hvars>>

NextSnapshot == SnapshotRoot \/ SnapshotApply \/ SnapshotReturn

SpecSnapshot == InitUnit /\ [][NextSnapshot]_vars

\* ------------------------------------------------------------------------
\* The /api/think handler (api/think.ts 19-42)
\* ------------------------------------------------------------------------

\* timeMs ?? 1200 (line 30).
DefaultTimeMs == 1200

\* The timeout the README promises for the handler (README.md line 236).
HandlerTimeout == 8000

bodyTimeMs(body) == IF "timeMs" \in DOMAIN body THEN body.timeMs ELSE DefaultTimeMs

RequestBodies ==
  LET plain == {[board |-> setup(men), handBlack |-> EmptyHand, handWhite |-> EmptyHand,
                 turn |-> "black"] : men \in {KingsOnly, KingEnPrise, LoneKing}}
  IN plain \cup {[board |-> b.board, handBlack |-> b.handBlack, handWhite |-> b.handWhite,
                  turn |-> b.turn, timeMs |-> ms] : b \in plain, ms \in {300, 9000}}

Requests ==
  {[method |-> "OPTIONS"], [method |-> "GET"]}
  \cup {[method |-> "POST", body |-> b] : b \in RequestBodies}

\* Lines 21-22: a request that is not a POST is answered at once.
HandlerReject ==
  /\ hpc = "request" /\ hreq.method # "POST"
  /\ hres' = IF hreq.method = "OPTIONS" THEN [status |-> 204]
             ELSE [status |-> 405, error |-> "Method Not Allowed"]
  /\ hpc' = "responded"
  /\ UNCHANGED <<hreq, gvars, tvars, uvars>>

\* Line 30: the handler calls think and runs nothing else until it returns.
HandlerCall ==
  /\ hpc = "request" /\ hreq.method = "POST"
  /\ inp' = [board |-> hreq.body.board, handBlack |-> hreq.body.handBlack,
             handWhite |-> hreq.body.handWhite, side |-> hreq.body.turn,
             timeMs |-> bodyTimeMs(hreq.body)]
  /\ tpc' = "start"
  /\ hpc' = "thinking"
  /\ UNCHANGED <<hreq, hres, gvars, uvars, clock, timeLimit, maxDepth, depth, aspiration,
                 windowAlpha, windowBeta, rootMoves, best, bestScore, result, stack, ret,
                 tt, killers, history, nodes, aborted, accepted, aborts, cleanBest>>

\* Lines 33-37: think returned; the answer is its move, unpacked if there is one.
HandlerRespond ==
  /\ hpc = "thinking" /\ tpc = "done"
  /\ hres' = [status |-> 200, move |-> result,
              ply |-> IF result # NullMove THEN unpack(result, hreq.body.board)
                      ELSE NoDecoded]
  /\ hpc' = "responded"
  /\ UNCHANGED <<hreq, gvars, tvars, uvars>>

InitHandler ==
  /\ hpc = "request" /\ hreq \in Requests /\ hres = NoResponse
  /\ ThinkIdle /\ GenIdle /\ UnitIdle

NextHandler ==
  \/ HandlerReject \/ HandlerCall \/ HandlerRespond
  \/ ThinkStart \/ ThinkLoop \/ ThinkAfterSearch
  \/ SearchEnter \/ SearchNullRet \/ SearchLoop \/ SearchChildRet
  \/ Tick

SpecHandler == InitHandler /\ [][NextHandler]_vars

\* ------------------------------------------------------------------------
\* Fair runs of think
\* ------------------------------------------------------------------------

\* The steps of the program itself; Tick is the clock.
Step ==
  \/ ThinkStart \/ ThinkLoop \/ ThinkAfterSearch
  \/ SearchEnter \/ SearchNullRet \/ SearchLoop \/ SearchChildRet

\* A step of the program can be taken: the guards of the actions of Step,
\* each of which has a successor whenever its guard holds.
Running ==
  \/ tpc \in {"start", "loop"}
  \/ /\ tpc = "search"
     /\ IF stack = <<>> THEN ret.valid
        ELSE CASE Top.pc = "enter" -> timeUp(clock, timeLimit) \/ nodes < MaxNodes
               [] Top.pc = "loop" -> TRUE
               [] OTHER -> ret.valid

\* Weak fairness of the program, WF_vars(Step), with ENABLED <<Step>>_vars
\* written out as Running.
StepFair == []<>(~Running) \/ []<><<Step>>_vars

\* The program keeps running and the clock keeps advancing.
LiveSpec == Init /\ [][Next]_vars /\ StepFair /\ WF_vars(Tick)

\* ------------------------------------------------------------------------
\* Properties of think
\* ------------------------------------------------------------------------

rootHasMoves ==
  enumerateMovesGeneric(inp.board, inp.handBlack, inp.handWhite, inp.side) # <<>>

\* C1: think returns null exactly when the side to move has no generated
\* move at the root; with a root move it returns a token, for every budget.
C1_NullIffNoRootMove ==
  tpc = "done" => (result = NullMove <=> ~rootHasMoves)

C1_Witness_NullReturned ==
  tpc = "done" /\ result = NullMove /\ ~rootHasMoves

\* The token tok names a board move of side onto the square of the other
\* side's king.
takesKing(bd, side, tok) ==
  /\ tok # NullMove
  /\ tok[1] = "m"
  /\ bd[tok[4]][tok[5]] # NoPiece
  /\ bd[tok[4]][tok[5]].side = opp(side)
  /\ demoteMap(bd[tok[4]][tok[5]].type) = "K"

\* Both kings stand on the root board and a generated board move of the side
\* to move lands on the other king.
kingEnPrise ==
  /\ findKing(inp.board, "black") # <<>>
  /\ findKing(inp.board, "white") # <<>>
  /\ \E i \in 1 .. Len(rootMoves) :
       rootMoves[i].kind = "move" /\ takesKing(inp.board, inp.side, pack(rootMoves[i]))

\* C2 as stated: with the other king capturable at the root, think
\* returns a king capture, whatever the time budget.
C2_AlwaysTakesKing ==
  tpc = "done" /\ kingEnPrise => takesKing(inp.board, inp.side, result)

\* C2 amended: with the other king capturable at the root, think
\* returns a king capture once at least one iteration has been accepted.
C2_TakesKingOnceAccepted ==
  tpc = "done" /\ kingEnPrise /\ accepted >= 1
    => takesKing(inp.board, inp.side, result)

C2_Witness_KingTaken ==
  /\ tpc = "done" /\ kingEnPrise /\ accepted >= 1
  /\ result # pack(rootMoves[1])
  /\ takesKing(inp.board, inp.side, result)

\* C3: the move returned is the one adopted by the last iteration that ran
\* to its end before the deadline (the fallback when there is none): no
\* iteration cut short by the deadline supplies the returned move.
C3_NoInterruptedResult ==
  tpc = "done" /\ rootHasMoves => result = cleanBest

\* C4: every call of think returns, as long as the clock advances.
C4_ThinkReturns == <>(tpc = "done")

C4_Witness_ReturnAfterDeadline ==
  tpc = "done" /\ timeUp(clock, timeLimit) /\ nodes >= 1

\* ------------------------------------------------------------------------
\* Properties of the generator, the codec and applyOneMove
\* ------------------------------------------------------------------------

\* C5: unpack(pack(m), board) gives back a generated move m: its kind and,
\* for a board move, from, to, took and promote; for a drop, piece and at.
C5_RoundTrip ==
  gphase = "picked" =>
    /\ gdec.kind = gsel.kind
    /\ IF gsel.kind = "move"
         THEN /\ gdec.from = gsel.from /\ gdec.to = gsel.to
              /\ gdec.took = gsel.took /\ gdec.promote = gsel.promote
         ELSE gdec.piece = gsel.piece /\ gdec.at = gsel.at

C5_Witness_CaptureWithPromotion ==
  /\ gphase = "picked" /\ gsel.kind = "move"
  /\ gsel.took # NoPiece /\ gsel.promote
  /\ gdec.took = gsel.took /\ gdec.promote

moverHand == IF gpos.side = "black" THEN gpos.hB ELSE gpos.hW

farthest(side) == IF side = "black" THEN 8 ELSE 0

\* Rank r is the farthest or the second-farthest rank of side.
lastTwo(side, r) == IF side = "black" THEN r >= 7 ELSE r <= 1

\* An unpromoted pawn of side stands on file c.
plainPawnOnFile(bd, side, c) == \E r \in Rows : bd[r][c] = Pc(side, "P")

\* The drop policy as the rules state it: kind t of side may be dropped on
\* the empty square (r, c).
dropAllowed(bd, side, t, r, c) ==
  /\ bd[r][c] = NoPiece
  /\ t = "P" => r # farthest(side) /\ ~plainPawnOnFile(bd, side, c)
  /\ t = "L" => r # farthest(side)
  /\ t = "N" => ~lastTwo(side, r)

\* C6: every drop the policy allows of a kind held in hand is generated; a
\* promoted pawn of the mover on the file does not block a pawn drop.
C6_DropComplete ==
  gphase = "gen" =>
    \A k \in 1 .. Len(HandKinds), r \in Rows, c \in Rows :
      (handGet(moverHand, HandKinds[k]) > 0
         /\ dropAllowed(gpos.bd, gpos.side, HandKinds[k], r, c))
        => \E i \in 1 .. Len(gmoves) : gmoves[i] = DropRec(HandKinds[k], r, c)

\* C7: no generated drop lands on an occupied square, is of a kind not in
\* hand, puts a pawn on a file holding an unpromoted pawn of the mover, puts
\* a pawn or lance on the farthest rank, or a knight on the last two ranks.
C7_DropSound ==
  gphase = "gen" =>
    \A i \in 1 .. Len(gmoves) :
      gmoves[i].kind = "drop" =>
        LET t == gmoves[i].piece
            r == gmoves[i].at.r
            c == gmoves[i].at.c
        IN /\ gpos.bd[r][c] = NoPiece
           /\ handGet(moverHand, t) > 0
           /\ t = "P" => ~plainPawnOnFile(gpos.bd, gpos.side, c)
           /\ t \in {"P", "L"} => r # farthest(gpos.side)
           /\ t = "N" => ~lastTwo(gpos.side, r)

C7_Witness_PawnDropBesidePawnFile ==
  /\ gphase = "gen"
  /\ \E c \in Rows : plainPawnOnFile(gpos.bd, gpos.side, c)
  /\ \E i \in 1 .. Len(gmoves) : gmoves[i].kind = "drop" /\ gmoves[i].piece = "P"
  /\ \E i \in 1 .. Len(gmoves) : gmoves[i].kind = "drop" /\ gmoves[i].piece = "N"

\* The promote flags generated for the origin/destination pair of move m.
flagsOf(m) ==
  {gmoves[j].promote : j \in {k \in 1 .. Len(gmoves) :
      gmoves[k].kind = "move" /\ gmoves[k].from = m.from /\ gmoves[k].to = m.to}}

\* Rank r lies in the three ranks farthest from side.
inZone(side, r) == IF side = "black" THEN r >= 6 ELSE r <= 2

\* The flags the promotion policy prescribes for piece type t of side moving
\* from rank fr to rank tr.
policyFlags(side, t, fr, tr) ==
  IF (t \in {"P", "L"} /\ tr = farthest(side)) \/ (t = "N" /\ lastTwo(side, tr))
    THEN {TRUE}
    ELSE IF t \in {"R", "B", "S", "N", "L", "P"} /\ (inZone(side, fr) \/ inZone(side, tr))
      THEN {TRUE, FALSE}
      ELSE {FALSE}

\* C8: the promote flags generated for an origin/destination pair are {true}
\* for a forced promotion, {true, false} for a promotable unpromoted piece
\* moving into, out of or within the enemy zone, and {false} otherwise.
C8_PromotionPolicy ==
  gphase = "gen" =>
    \A i \in 1 .. Len(gmoves) :
      gmoves[i].kind = "move" =>
        flagsOf(gmoves[i])
          = policyFlags(gpos.side, gpos.bd[gmoves[i].from.r][gmoves[i].from.c].type,
                        gmoves[i].from.r, gmoves[i].to.r)

C8_Witness_AllThreeCases ==
  /\ gphase = "gen"
  /\ \E i \in 1 .. Len(gmoves) :
       /\ gmoves[i].kind = "move"
       /\ gpos.bd[gmoves[i].from.r][gmoves[i].from.c].type = "N"
       /\ flagsOf(gmoves[i]) = {TRUE}
  /\ \E i \in 1 .. Len(gmoves) :
       gmoves[i].kind = "move" /\ flagsOf(gmoves[i]) = {TRUE, FALSE}
  /\ \E i \in 1 .. Len(gmoves) :
       /\ gmoves[i].kind = "move"
       /\ inZone(gpos.side, gmoves[i].to.r)
       /\ flagsOf(gmoves[i]) = {FALSE}

\* The pieces on a board, and the pieces of kind t in a hand.
onBoard(bd) == Cardinality({sq \in Rows \X Rows : bd[sq[1]][sq[2]] # NoPiece})

inHand(h) ==
  sumRange([k \in 1 .. Len(HandKinds) |-> handGet(h, HandKinds[k])], 1, Len(HandKinds))

pieces(pos) == onBoard(pos.bd) + inHand(pos.hB) + inHand(pos.hW)

\* Hand h2 is hand h1 with d added to the count of kind t.
handDiffers(h1, h2, t, d) ==
  \A k \in 1 .. Len(HandKinds) :
    handGet(h2, HandKinds[k])
      = handGet(h1, HandKinds[k]) + (IF HandKinds[k] = t THEN d ELSE 0)

\* C9: applying a generated move keeps the number of pieces on the board
\* and in the hands, but for a captured king, which leaves play; a captured
\* piece leaves the board for the mover's hand as its base kind, a drop takes
\* one piece of its kind from the mover's hand, and no other count changes.
C9_PieceConservation ==
  (gphase = "pos" /\ glast # NoMove) =>
    LET side == gprev.side
        mine1 == IF side = "black" THEN gprev.hB ELSE gprev.hW
        mine2 == IF side = "black" THEN gpos.hB ELSE gpos.hW
        other1 == IF side = "black" THEN gprev.hW ELSE gprev.hB
        other2 == IF side = "black" THEN gpos.hW ELSE gpos.hB
        took == glast.took
    IN /\ handDiffers(other1, other2, "none", 0)
       /\ IF glast.kind = "drop"
            THEN /\ pieces(gpos) = pieces(gprev)
                 /\ handDiffers(mine1, mine2, glast.piece, -1)
            ELSE IF took = NoPiece
              THEN pieces(gpos) = pieces(gprev) /\ handDiffers(mine1, mine2, "none", 0)
              ELSE IF took.type = "K"
                THEN /\ pieces(gpos) = pieces(gprev) - 1
                     /\ handDiffers(mine1, mine2, "none", 0)
                ELSE /\ pieces(gpos) = pieces(gprev)
                     /\ onBoard(gpos.bd) = onBoard(gprev.bd) - 1
                     /\ gpos.bd[glast.to.r][glast.to.c].side = side
                     /\ handDiffers(mine1, mine2, demoteMap(took.type), 1)

C9_Witness_PromotedPieceCaptured ==
  /\ gphase = "pos" /\ glast # NoMove /\ glast.kind = "move"
  /\ glast.took # NoPiece /\ isPromoted(glast.took.type)
  /\ handGet(IF gprev.side = "black" THEN gpos.hB ELSE gpos.hW,
             demoteMap(glast.took.type)) = 1

\* ------------------------------------------------------------------------
\* Properties of search
\* ------------------------------------------------------------------------

\* C10: every call of search is handed the key of its own node, keyBoard of
\* its board, hands and side to move.
C10_KeyOfNode ==
  \A i \in 1 .. Len(stack) :
    stack[i].pc = "enter" =>
      stack[i].key = keyBoard(stack[i].bd, stack[i].hB, stack[i].hW, stack[i].side)

\* ------------------------------------------------------------------------
\* C11  Answers of the transposition table
\* ------------------------------------------------------------------------

\* The call on top of the stack is about to run lines 403-423 in time.
probing ==
  /\ tpc = "search" /\ stack # <<>> /\ Top.pc = "enter"
  /\ ~timeUp(clock, timeLimit)
  /\ nodes < MaxNodes

\* The call on top of the stack is about to return at lines 410-412.
answersFromTable == probing /\ entryResult(Top, tt).via = "tt"

\* C11 (first half): whenever search returns a score taken from a table
\* entry, that entry was stored by a node with the same position (board and
\* both hands) and the same side to move as the node that reads it.
C11_EntryFromSameNode ==
  answersFromTable => tt.map[Top.key].by = nodeOf(Top)

\* ------------------------------------------------------------------------
\* C12  The sign of evaluateBoard
\* ------------------------------------------------------------------------

evaluated == ucall.fn = "evaluateBoard"

\* C12 (as claimed): evaluateBoard is signed in favour of black, the side
\* that moves first: a piece more on the board or in the hand of black
\* strictly raises the score, a piece more of white strictly lowers it.
C12_SignedForBlack ==
  evaluated =>
    IF ucall.add.side = "black" THEN uout.after > uout.before
                                ELSE uout.after < uout.before

\* C12 (amended): evaluateBoard is signed in favour of white, the side that
\* moves second: a piece more on the board or in the hand of white strictly
\* raises the score, a piece more of black strictly lowers it.
C12_SignedForWhite ==
  evaluated =>
    IF ucall.add.side = "white" THEN uout.after > uout.before
                                ELSE uout.after < uout.before

\* A white piece put on the board where it takes moves away from the other
\* white pieces: white's mobility without the new piece's own moves drops.
C12_Witness_WhitePieceBlocksOwnLine ==
  /\ evaluated
  /\ ucall.add.where = "board" /\ ucall.add.side = "white"
  /\ LET bd0 == ucall.pos.bd
         bd1 == addPiece(ucall.pos, ucall.add).bd
     IN mobility(bd1, "white") - Len(legalMoves(bd1, ucall.add.r, ucall.add.c))
          < mobility(bd0, "white")
  /\ uout.after > uout.before

\* ------------------------------------------------------------------------
\* C13  The handler and its timeout
\* ------------------------------------------------------------------------

\* A response of the timeout path: a fallback move, or no move with the
\* error "timeout".
timeoutResponse(res) ==
  \/ "fallback" \in DOMAIN res
  \/ "error" \in DOMAIN res /\ res.error = "timeout"

\* C13: when think has not produced its answer within the handler's timeout
\* of 8000 ms, the response to the POST is the one of the timeout path, sent
\* without waiting for think: no response is think's own answer delivered
\* after the timeout.
C13_TimerWins ==
  (hpc = "responded" /\ hreq.method = "POST" /\ clock > HandlerTimeout)
    => timeoutResponse(hres)

\* ------------------------------------------------------------------------
\* C14  The probe of the transposition table
\* ------------------------------------------------------------------------

\* The rule of the claim for entry e and the call f that reads it.
trusted(e, f) ==
  /\ e.depth >= f.depth
  /\ \/ e.flag = 0
     \/ e.flag = 1 /\ e.score <= f.alpha
     \/ e.flag = 2 /\ e.score >= f.beta

trustedScore(e, f) ==
  IF e.flag = 0 THEN e.score ELSE IF e.flag = 1 THEN f.alpha ELSE f.beta

\* The call on top of the stack takes its first step in time, with both
\* kings on the board and an entry under its key.
probesEntry ==
  /\ probing /\ nodes' = nodes + 1
  /\ findKing(Top.bd, "black") # <<>> /\ findKing(Top.bd, "white") # <<>>
  /\ ttHas(tt, Top.key)

\* C14: search returns from a table entry without expanding the node only
\* when the entry's depth is at least the requested depth and the entry is
\* exact (the stored score is returned), or an upper bound with score <=
\* alpha (alpha is returned), or a lower bound with score >= beta (beta is
\* returned).  In every other case the call does what it does with no entry
\* (quiescence, futility, the null move or the moves), the entry giving only
\* its best move to the ordering.
C14_ProbeRule ==
  [][probesEntry =>
       LET e == tt.map[Top.key]
           plain == entryResult(Top, EmptyTT)
       IN IF trusted(e, Top)
            THEN /\ ret'.via = "tt" /\ ret'.score = trustedScore(e, Top)
                 /\ stack' = Pop(stack)
            ELSE /\ ret'.via # "tt"
                 /\ IF plain.valid
                      THEN ret' = plain /\ stack' = Pop(stack)
                      ELSE \/ ret'.via = "nomoves" /\ stack' = Pop(stack)
                           \/ /\ ~ret'.valid
                              /\ Len(stack') >= Len(stack)
                              /\ stack'[Len(stack)].tteBest = e.best
                              /\ stack'[Len(stack)].pc \in {"null", "loop"}
                              /\ stack'[Len(stack)].pc = "loop" =>
                                   stack'[Len(stack)].ordered =
                                     orderMoves(Top.bd, Top.side,
                                       enumerateMovesGeneric(Top.bd, Top.hB, Top.hW, Top.side),
                                       Top.ply, history, killers, Top.pv, e.best)]_vars

\* A call has answered from the table while a call above it found an entry
\* it could not trust and went on with the entry's best move.
C14_Witness_AnswerAndOrderingOnly ==
  /\ tpc = "search" /\ ret.valid /\ ret.via = "tt"
  /\ \E i \in 1 .. Len(stack) :
       /\ stack[i].pc # "enter" /\ stack[i].tteBest # NullMove
       /\ ttHas(tt, stack[i].key) /\ ~trusted(tt.map[stack[i].key], stack[i])

\* ------------------------------------------------------------------------
\* C15  The age of the table
\* ------------------------------------------------------------------------

\* C15: the tick of the table advances as the search proceeds, so that the
\* entries of different iterations carry different age stamps: once two
\* iterations have been accepted the tick is above its first value, 1.
C15_TickAdvances == accepted >= 2 => ttNow(tt) > 1

\* ------------------------------------------------------------------------
\* C16  The aspiration window after a failed root search
\* ------------------------------------------------------------------------

\* The step of think that takes the root call's result (the clock stands).
rootReturned == tpc = "search" /\ stack = <<>> /\ ret.valid /\ clock' = clock
failedLow == rootReturned /\ ret.score <= windowAlpha
failedHigh == rootReturned /\ ret.score > windowAlpha /\ ret.score >= windowBeta
rootCalled == tpc = "loop" /\ tpc' = "search"

\* C16 (as claimed): after a root search that returned a score <=
\* windowAlpha or >= windowBeta the depth is unchanged and the window is
\* wider than the failed one: new alpha <= old alpha and new beta >= old
\* beta, one of them strictly.
C16_WindowWider ==
  [][(failedLow \/ failedHigh) =>
       /\ depth' = depth
       /\ windowAlpha' <= windowAlpha /\ windowBeta' >= windowBeta
       /\ windowAlpha' < windowAlpha \/ windowBeta' > windowBeta]_vars

\* C16 (amended): after a root search at depth d that returned a score <=
\* windowAlpha the failed bound moves out by the aspiration, new alpha = old
\* alpha - aspiration, and the other bound is set from the score, new beta =
\* score + aspiration; after a score >= windowBeta, new beta = old beta +
\* aspiration and new alpha = score - aspiration.  Depth
\* and aspiration are unchanged, the next root search is made at the current
\* depth with the current window, and depth advances, by one, only after a
\* score strictly inside the window.
C16_FailedBoundMovesOut ==
  [][/\ failedLow =>
          /\ depth' = depth /\ aspiration' = aspiration
          /\ windowAlpha' = windowAlpha - SC(aspiration)
          /\ windowBeta' = ret.score + SC(aspiration)
          /\ windowAlpha' < windowAlpha
     /\ failedHigh =>
          /\ depth' = depth /\ aspiration' = aspiration
          /\ windowBeta' = windowBeta + SC(aspiration)
          /\ windowAlpha' = ret.score - SC(aspiration)
          /\ windowBeta' > windowBeta
     /\ rootCalled =>
          /\ Len(stack') = 1 /\ stack'[1].depth = depth
          /\ stack'[1].alpha = windowAlpha /\ stack'[1].beta = windowBeta
     /\ depth' # depth =>
          /\ rootReturned /\ windowAlpha < ret.score /\ ret.score < windowBeta
          /\ depth' = depth + 1]_vars

\* A root search failed high before the deadline and the same depth is being
\* searched again with the new window, which is not centred on bestScore.
C16_Witness_ReSearchInTime ==
  /\ tpc = "search" /\ stack # <<>> /\ ~timeUp(clock, timeLimit) /\ ~aborted
  /\ accepted >= 1
  /\ stack[1].kind = "root" /\ stack[1].depth = depth
  /\ stack[1].alpha = windowAlpha /\ stack[1].beta = windowBeta
  /\ windowBeta > bestScore + SC(aspiration)
  /\ windowAlpha > bestScore - SC(aspiration)

\* ------------------------------------------------------------------------
\* C17  The order of the moves
\* ------------------------------------------------------------------------

\* Where token pm stands in list, 0 when it is not there.
indexOf(list, pm) ==
  IF \E j \in 1 .. Len(list) : pack(list[j]) = pm
    THEN CHOOSE j \in 1 .. Len(list) : pack(list[j]) = pm
    ELSE 0

\* list2 holds the moves of list1, each as often.
permutation(list1, list2) ==
  /\ Len(list1) = Len(list2)
  /\ \A m \in SeqToSet(list1) \cup SeqToSet(list2) :
       Cardinality({j \in 1 .. Len(list1) : list1[j] = m})
         = Cardinality({j \in 1 .. Len(list2) : list2[j] = m})

\* C17: the list orderMoves gave a call is a permutation of the generated
\* moves in which the principal-variation move, when supplied and in the
\* list, is first, and the best move of the table entry, when in the list,
\* has nothing before it but the principal-variation move.
C17_PvThenTableMove ==
  \A i \in 1 .. Len(stack) :
    LET f == stack[i]
        ipv == indexOf(f.ordered, f.pv)
        itt == indexOf(f.ordered, f.tteBest)
    IN f.ordered # <<>> =>
         /\ permutation(enumerateMovesGeneric(f.bd, f.hB, f.hW, f.side), f.ordered)
         /\ (f.pv # NullMove /\ ipv > 0) => ipv = 1
         /\ (f.tteBest # NullMove /\ itt > 0) =>
              \A j \in 1 .. (itt - 1) : pack(f.ordered[j]) = f.pv

\* ------------------------------------------------------------------------
\* C18  The move that led to an aborted call
\* ------------------------------------------------------------------------

\* The step of a call that takes the result of a child call cut by the time
\* check (the clock stands).
abortedChildReturned ==
  /\ tpc = "search" /\ stack # <<>> /\ Top.pc \in {"first", "nw", "re"}
  /\ ret.valid /\ ret.via = "abort"
  /\ clock' = clock

\* C18: a call aborted by the time check yields no usable move.  The parent
\* does not adopt the move that led to it as its best move, does not raise
\* its alpha because of it, and records no killer and no history weight on
\* account of it; the entry the parent stores when its loop ends holds the
\* alpha and the best move it had before.
C18_AbortedChildIgnored ==
  [][abortedChildReturned =>
       LET f == Top
           n == Len(stack)
       IN /\ killers' = killers /\ history' = history
          /\ IF Len(stack') >= n
               THEN /\ stack'[n].a = f.a /\ stack'[n].bestMove = f.bestMove
                    /\ tt' = tt
               ELSE /\ ret'.score = f.a /\ ret'.move = f.bestMove
                    /\ tt'.map[f.key].score = f.a
                    /\ tt'.map[f.key].best = f.bestMove]_vars

\* ------------------------------------------------------------------------
\* C19  The score of a king capture
\* ------------------------------------------------------------------------

\* C19: a move that takes the king is scored 999999 minus the ply at which
\* it is played, in the main search and in quiescence alike, so that a
\* capture at a smaller ply scores strictly more than one at a larger ply.
C19_WinScoreLessPly ==
  ucall.fn \in {"search", "quiescence"} => uout.score = WIN - SC(ucall.ply)

\* ------------------------------------------------------------------------
\* C20  The killer table
\* ------------------------------------------------------------------------

noDuplicates(list) ==
  \A i, j \in 1 .. Len(list) : list[i] = list[j] => i = j

cutoffMade == ucall.fn = "pushKiller"

\* C20: after any sequence of beta cutoffs the killer list of every ply
\* holds at most 2 tokens, all different, and right after a cutoff at ply p
\* the token of the cutoff move is in the list of ply p: the list is left
\* as it was when it held the token, and otherwise the token is put in
\* front and the oldest token dropped when the list would exceed 2.
C20_KillerTable ==
  /\ \A p \in DOMAIN killers : Len(killers[p]) <= 2 /\ noDuplicates(killers[p])
  /\ cutoffMade =>
       LET now == killersAt(killers, ucall.ply)
           was == ucall.before
       IN /\ \E i \in 1 .. Len(now) : now[i] = ucall.pm
          /\ IF \E i \in 1 .. Len(was) : was[i] = ucall.pm
               THEN now = was
               ELSE /\ now[1] = ucall.pm
                    /\ Len(now) = Min(Len(was) + 1, 2)
                    /\ \A i \in 2 .. Len(now) : now[i] = was[i - 1]
  /\ (ret.valid /\ ret.via = "cut") =>
       \E i \in 1 .. Len(killersAt(killers, Len(stack))) :
         killersAt(killers, Len(stack))[i] = ret.move

\* A cutoff by a third token at a ply whose list was full: the oldest token
\* is gone and the newer one has moved back.
C20_Witness_OldestEvicted ==
  /\ cutoffMade
  /\ Len(ucall.before) = 2
  /\ \A i \in 1 .. 2 : ucall.before[i] # ucall.pm
  /\ killersAt(killers, ucall.ply) = <<ucall.pm, ucall.before[1]>>

\* ------------------------------------------------------------------------
\* C21  The moves of quiescence
\* ------------------------------------------------------------------------

inQuiescence == ucall.fn = "quiescenceMoves"

\* The moves enumerateMovesGeneric gives the side to move of pos that move a
\* piece on the board and capture or promote.
qualifying(pos) ==
  LET all == enumerateMovesGeneric(pos.bd, pos.hB, pos.hW, pos.side)
  IN {all[j] : j \in {k \in 1 .. Len(all) :
                        /\ all[k].kind = "move"
                        /\ (all[k].took # NoPiece \/ all[k].promote)}}

\* C21: the moves a call of quiescence explores are board moves that
\* capture or promote, never a drop and never a quiet move without
\* promotion; they are at most 40, all of the qualifying moves when these
\* are at most 40 and otherwise exactly 40 of them, none with a smaller
\* seeGain than a qualifying move left out.
C21_CapturesAndPromotionsCapped ==
  inQuiescence =>
    LET pos == ucall.pos
        kept == {uout.moves[i] : i \in 1 .. Len(uout.moves)}
        left == qualifying(pos) \ kept
    IN /\ kept \subseteq qualifying(pos)
       /\ Cardinality(kept) = Len(uout.moves)
       /\ Len(uout.moves) = Min(40, Cardinality(qualifying(pos)))
       /\ \A k \in kept, m \in left :
            seeGain(pos.bd, k.from, k.to) >= seeGain(pos.bd, m.from, m.to)

\* More than 40 moves qualify and a capture is among those left out.
C21_Witness_CaptureLeftOut ==
  /\ inQuiescence
  /\ Cardinality(qualifying(ucall.pos)) > 40
  /\ Len(uout.moves) = 40
  /\ \E m \in qualifying(ucall.pos) :
       /\ m.took # NoPiece
       /\ \A i \in 1 .. 40 : uout.moves[i] # m

\* ------------------------------------------------------------------------
\* C22  Quiescence terminates
\* ------------------------------------------------------------------------

\* The pieces on the board, counted twice when they can still promote.
measure(pos) ==
  Cardinality({q \in Rows \X Rows : pos.bd[q[1]][q[2]] # NoPiece})
  + Cardinality({q \in Rows \X Rows : /\ pos.bd[q[1]][q[2]] # NoPiece
                                      /\ isPromotableType(pos.bd[q[1]][q[2]].type)})

quiescenceRecursed ==
  /\ inQuiescence
  /\ ucall'.fn = "quiescenceMoves"
  /\ ucall' # ucall

\* C22: quiescence stops without a depth counter and without the clock,
\* because every recursive call is on a position of a strictly smaller
\* measure (the pieces on the board plus those of them that can still
\* promote), which is never negative: no chain of captures and promotions
\* is longer than the measure of its first position.
C22_MeasureDecreases ==
  [][quiescenceRecursed =>
       /\ measure(ucall'.pos) < measure(ucall.pos)
       /\ measure(ucall'.pos) >= 0]_vars

\* A chain that ended: after a promotion that captured nothing the side to
\* move has no capture and no promotion.
C22_Witness_ChainEnds ==
  /\ inQuiescence
  /\ ucall.n >= 1
  /\ ucall.move.took = NoPiece /\ ucall.move.promote
  /\ uout.moves = <<>>

\* ------------------------------------------------------------------------
\* C23  Sliding moves
\* ------------------------------------------------------------------------

orthogonal == {<<1, 0>>, <<-1, 0>>, <<0, 1>>, <<0, -1>>}
diagonal == {<<1, 1>>, <<1, -1>>, <<-1, 1>>, <<-1, -1>>}
forward(side) == IF side = "black" THEN <<1, 0>> ELSE <<-1, 0>>

\* The squares in direction d from (r, c) up to the first occupied square,
\* that square included when it holds a piece of the other side.
scan(bd, side, r, c, d) ==
  {<<r + k * d[1], c + k * d[2]>> : k \in {j \in 1 .. 8 :
      /\ inBounds(r + j * d[1], c + j * d[2])
      /\ \A i \in 1 .. (j - 1) : bd[r + i * d[1]][c + i * d[2]] = NoPiece
      /\ \/ bd[r + j * d[1]][c + j * d[2]] = NoPiece
         \/ bd[r + j * d[1]][c + j * d[2]].side # side}}

\* The squares in direction d from (r, c) the generated moves go to.
along(r, c, d) ==
  {<<gmoves[j].to.r, gmoves[j].to.c>> : j \in {k \in 1 .. Len(gmoves) :
      /\ gmoves[k].kind = "move"
      /\ gmoves[k].from = Sq(r, c)
      /\ \E n \in 1 .. 8 : gmoves[k].to = Sq(r + n * d[1], c + n * d[2])}}

\* The directions a piece slides in: as the claim has them, and as
\* legalMoves has them (lines 82, 83, 91, 93, 94).
slidesClaimed(side, t) ==
  CASE t \in {"R", "PR", "PB"} -> orthogonal
    [] t = "B" -> diagonal
    [] t = "L" -> {forward(side)}
    [] OTHER -> {}
slides(side, t) ==
  CASE t \in {"R", "PR"} -> orthogonal
    [] t \in {"B", "PB"} -> diagonal
    [] t = "L" -> {forward(side)}
    [] OTHER -> {}
\* The directions a promoted rook or bishop moves one square in.
steps(t) ==
  CASE t = "PR" -> diagonal
    [] t = "PB" -> orthogonal
    [] OTHER -> {}

ownPieces ==
  {q \in Rows \X Rows : gpos.bd[q[1]][q[2]] # NoPiece /\ gpos.bd[q[1]][q[2]].side = gpos.side}

\* C23 as stated: the moves of a rook, bishop, lance and promoted rook, and
\* the orthogonal moves of a promoted bishop, are the ray-scan of each of
\* their directions.
C23_SlidersRayScan ==
  gphase = "gen" =>
    \A q \in ownPieces :
      \A d \in slidesClaimed(gpos.side, gpos.bd[q[1]][q[2]].type) :
        along(q[1], q[2], d) = scan(gpos.bd, gpos.side, q[1], q[2], d)

\* C23, amended: the moves of a rook, bishop and lance, the orthogonal moves
\* of a promoted rook and the diagonal moves of a promoted bishop are the
\* ray-scan of each of their directions: every empty square up to the first
\* occupied one, that one too when it holds an enemy piece, nothing beyond
\* it and no square of an own piece.  The diagonal moves of a promoted rook
\* and the orthogonal moves of a promoted bishop go one square only.
C23_SlidersRayScanDiagonalHorse ==
  gphase = "gen" =>
    \A q \in ownPieces :
      LET t == gpos.bd[q[1]][q[2]].type
      IN /\ \A d \in slides(gpos.side, t) :
              along(q[1], q[2], d) = scan(gpos.bd, gpos.side, q[1], q[2], d)
         /\ \A d \in steps(t) :
              along(q[1], q[2], d)
                = scan(gpos.bd, gpos.side, q[1], q[2], d) \cap {<<q[1] + d[1], q[2] + d[2]>>}

\* A promoted bishop with a diagonal that runs over empty squares to an
\* enemy piece, taken, an orthogonal line with two empty squares of which
\* only the first is generated, and a rook stopped by a piece of its side.
C23_Witness_HorseRaysAndSteps ==
  /\ gphase = "gen"
  /\ \E q \in ownPieces :
       /\ gpos.bd[q[1]][q[2]].type = "PB"
       /\ \E d \in diagonal :
            /\ Cardinality(along(q[1], q[2], d)) >= 2
            /\ \E v \in along(q[1], q[2], d) : gpos.bd[v[1]][v[2]] # NoPiece
       /\ \E d \in orthogonal :
            /\ Cardinality(scan(gpos.bd, gpos.side, q[1], q[2], d)) >= 2
            /\ Cardinality(along(q[1], q[2], d)) = 1
  /\ \E q \in ownPieces :
       /\ gpos.bd[q[1]][q[2]].type \in {"R", "PR"}
       /\ \E d \in orthogonal, k \in 2 .. 8 :
            /\ inBounds(q[1] + k * d[1], q[2] + k * d[2])
            /\ <<q[1] + (k - 1) * d[1], q[2] + (k - 1) * d[2]>> \in along(q[1], q[2], d)
            /\ <<q[1] + k * d[1], q[2] + k * d[2]>> \in ownPieces

\* ------------------------------------------------------------------------
\* C24  Snapshots are never mutated
\* ------------------------------------------------------------------------

applied == ucall.fn = "applyOneMove" /\ ucall.m # NoMove

\* The references of a snapshot: its cells and its two hands.
refs(snap) == {snap.bd[r][c] : r \in Rows, c \in Rows} \cup {snap.hB, snap.hW}

\* C24: applyOneMove changes no object that existed when it was called, so
\* its input board and hands are as they were, and the board and the hands
\* it returns are new objects; after any number of applied moves, below one
\* another and one after another, every position still held, the caller's
\* root position first, is the position it was when it was made.
C24_SnapshotsNotMutated ==
  ucall.fn = "applyOneMove" =>
    /\ \A k \in 1 .. Len(ucall.stack) :
         deref(uout.heap, ucall.stack[k]) = ucall.made[k]
    /\ applied =>
         LET n == Len(ucall.stack)
         IN /\ \A k \in 1 .. Len(ucall.before) : uout.heap[k] = ucall.before[k]
            /\ \A k \in refs(ucall.stack[n]) : k > Len(ucall.before)
            /\ Cardinality(refs(ucall.stack[n])) = BOARD_SIZE * BOARD_SIZE + 2

\* A drop was applied to the caller's position: the board and the mover's
\* hand it returned differ from the caller's, which are as they were.
C24_Witness_RootKeptAfterCaptureAndDrop ==
  /\ applied
  /\ Len(ucall.stack) = 2
  /\ ucall.m.kind = "drop"
  /\ ucall.made[2].bd # ucall.made[1].bd
  /\ ucall.made[2].hW # ucall.made[1].hW
  /\ deref(uout.heap, ucall.stack[1]) = ucall.made[1]

\* ------------------------------------------------------------------------
\* C25  Hand counts are never negative
\* ------------------------------------------------------------------------

\* The hand of side in position pos.
handOf(pos, side) == IF side = "black" THEN pos.hB ELSE pos.hW

dropped == gphase = "dropped"

\* C25: in every position reached by generated moves, and by drops whether
\* or not the hand holds the piece, every count of both hands is at least
\* 0; a drop of a kind whose count was 0 or missing leaves the count of
\* that kind at 0, and a drop of a kind held takes 1 off its count.
C25_HandsNeverNegative ==
  /\ \A side \in Sides :
       /\ \A t \in DOMAIN handOf(gpos, side) : handOf(gpos, side)[t] >= 0
       /\ \A k \in 1 .. Len(HandKinds) : handGet(handOf(gpos, side), HandKinds[k]) >= 0
  /\ dropped =>
       LET was == handOf(gprev, gprev.side)
           now == handOf(gpos, gprev.side)
       IN /\ glast.piece \in DOMAIN now
          /\ now[glast.piece] = IF handGet(was, glast.piece) = 0
                                  THEN 0 ELSE handGet(was, glast.piece) - 1
          /\ handOf(gpos, gpos.side) = handOf(gprev, gpos.side)

\* A drop of a kind the hand has no entry for, by a side that holds pieces
\* of another kind.
C25_Witness_DropOfMissingKind ==
  /\ dropped
  /\ glast.piece \notin DOMAIN handOf(gprev, gprev.side)
  /\ handOf(gpos, gprev.side)[glast.piece] = 0
  /\ \E t \in DOMAIN handOf(gprev, gprev.side) : handOf(gprev, gprev.side)[t] > 0

\* ------------------------------------------------------------------------
\* C26  The recursion of search is bounded
\* ------------------------------------------------------------------------

\* The deepest iteration for a budget of timeMs, as the claim has it.
capFor(timeMs) ==
  IF Min(timeMs, 8000) < 1500 THEN 5 ELSE IF Min(timeMs, 8000) < 3000 THEN 6 ELSE 7

\* C26: for every call of search in progress, ply + max(depth, 0) is at most
\* the depth of the running iteration, which is at most 5 for a budget
\* below 1500 ms, 6 below 3000 ms and 7 otherwise; so no call has a ply
\* above 7, the null-move children included.
C26_BoundedRecursion ==
  tpc = "search" =>
    /\ \A i \in 1 .. Len(stack) :
         /\ stack[i].ply + Max(stack[i].depth, 0) <= depth
         /\ stack[i].ply <= 7
    /\ depth <= capFor(inp.timeMs)

\* The seventh iteration of a budget above 8000 ms, eight calls deep.
C26_Witness_PlySeven ==
  /\ tpc = "search"
  /\ depth = 7
  /\ inp.timeMs > 8000
  /\ Len(stack) = 8
  /\ Top.ply = 7

\* ------------------------------------------------------------------------
\* C27  Iterative deepening
\* ------------------------------------------------------------------------

\* think takes the return of a root search whose score lies strictly inside
\* the window.
rootAccepted ==
  /\ rootReturned
  /\ ret.score > windowAlpha
  /\ ret.score < windowBeta

\* C27: the iteration depth starts at 1 and never decreases; it changes
\* only by 1 and only when think takes a root search whose score lies
\* strictly inside the window; the best move, once the fallback is set, is
\* replaced only then, by the move of that search, which is not null; and
\* the move think returns after its loop is the best move.
C27_DeepeningByOne ==
  /\ depth = 1
  /\ [][/\ depth' >= depth
        /\ depth' # depth => (depth' = depth + 1 /\ rootAccepted)
        /\ (tpc # "start" /\ best' # best) =>
             (rootAccepted /\ ret.move # NullMove /\ best' = ret.move)
        /\ (tpc \in {"loop", "search"} /\ tpc' = "done") => result' = best']_vars

\* The third iteration begins with a best move that is not the fallback.
C27_Witness_ThirdIterationNewBest ==
  /\ tpc = "search"
  /\ depth = 3
  /\ rootMoves # <<>>
  /\ best # fallbackMove(rootMoves)

\* ------------------------------------------------------------------------
\* C28  Windows of the invocations of search
\* ------------------------------------------------------------------------

\* C28 (as claimed): every invocation of search in progress, the root call
\* of think and every recursive call below it, was made with alpha strictly
\* less than beta.
C28_WindowsWellFormed ==
  tpc = "search" =>
    \A i \in 1 .. Len(stack) : stack[i].alpha < stack[i].beta

\* ------------------------------------------------------------------------
\* C29  The move think returns
\* ------------------------------------------------------------------------

\* The tokens of the moves generated for the side to move at the root.
rootTokens == {pack(rootMoves[i]) : i \in 1 .. Len(rootMoves)}

\* C29: a token think returns, unless null, is the token of a move generated
\* for the side to move at the root position, and so are the best move think
\* holds while it runs and every move a root call returns; a table entry the
\* root call answers from was stored by a call on the root position with the
\* root's side to move.
C29_TokenOfRootMove ==
  /\ (tpc = "done" /\ result # NullMove) => result \in rootTokens
  /\ tpc \in {"loop", "search"} => best \in rootTokens
  /\ (tpc = "search" /\ stack = <<>> /\ ret.valid /\ ret.move # NullMove) =>
       ret.move \in rootTokens
  /\ (Len(stack) = 1 /\ answersFromTable) => tt.map[Top.key].by = nodeOf(Top)

\* think returns a move other than its fallback while the table holds an
\* entry whose move is not a move of the root.
C29_Witness_ForeignMovesInTable ==
  /\ tpc = "done"
  /\ result # NullMove
  /\ result # fallbackMove(rootMoves)
  /\ \E k \in DOMAIN tt.map :
       tt.map[k].best # NullMove /\ tt.map[k].best \notin rootTokens

\* ------------------------------------------------------------------------
\* C30  Kings below the root
\* ------------------------------------------------------------------------

bothKings(bd) == findKing(bd, "black") # <<>> /\ findKing(bd, "white") # <<>>

RECURSIVE quiescenceMeetsNoKing(_, _, _, _)

\* Some invocation of quiescence in the tree of a leaf call on the position
\* is on a position without one of the kings.  The loop of lines 330-335
\* calls quiescence after every move of its list that signals no winner
\* (which of them it reaches depends on the window).
quiescenceMeetsNoKing(bd, hB, hW, side) ==
  \/ ~bothKings(bd)
  \/ LET moves == quietMoves(bd, hB, hW, side)
     IN \E i \in 1 .. Len(moves) :
          LET res == applyOneMove(bd, hB, hW, side, moves[i])
          IN /\ res.winner = "null"
             /\ quiescenceMeetsNoKing(res.bd, res.hB, res.hW, opp(side))

\* C30: when the root position holds both kings, every invocation of
\* search holds both kings, and so does every invocation of quiescence a
\* leaf call can make; and for any root position, a call of search that
\* returns from the king branch of lines 405-406 is the root call, at ply 0.
C30_KingsBelowRoot ==
  /\ (tpc = "search" /\ bothKings(inp.board)) =>
       \A i \in 1 .. Len(stack) :
         /\ bothKings(stack[i].bd)
         /\ stack[i].depth <= 0 =>
              ~quiescenceMeetsNoKing(stack[i].bd, stack[i].hB, stack[i].hW, stack[i].side)
  /\ (tpc = "search" /\ ret.valid /\ ret.via = "king") =>
       (stack = <<>> /\ ~bothKings(inp.board))

\* Below a root with both kings the call at ply 1 has scored the capture of
\* the king from the winner signal and returned that score.
C30_Witness_KingTakenBelowRoot ==
  /\ tpc = "search"
  /\ bothKings(inp.board)
  /\ Len(stack) = 1
  /\ ret.valid /\ ret.via \in {"cut", "end"}
  /\ ret.score = kingCaptureScore(1)

=============================================================================
